---------------------------- MODULE Spec2Model ----------------------------
(***************************************************************************)
(* Radial menu layout engine: the safe-arc angular solver                  *)
(* (useRadialMenuPositions in src/src/DraggableRadialMenu.tsx) and the     *)
(* force-relaxation controller (RadialMenu in src/unnamed/part_001 and     *)
(* src/src/components/RadialMenu.tsx, geometry in src/src/lib/geometry.ts).*)
(*                                                                         *)
(* Numbers are fixed point.  Lengths are integers in units of 1/FP pixel,  *)
(* scale factors are integers in tenths (hover scale 1.3 is 13), so that   *)
(* a size in length units is  pixels * scaleTenths.  Angles are integers   *)
(* in units of 1/SubDeg degree; cosine and sine come from a table of       *)
(* 10000 * sin(d degrees), linearly interpolated between whole degrees.    *)
(***************************************************************************)
EXTENDS Integers, Sequences, FiniteSets, TLC

\* ------------------------------------------------------------------------
\* Fixed-point arithmetic
\* ------------------------------------------------------------------------

FP == 10              \* length units per pixel
TrigScale == 10000    \* scale of the sine table
SubDeg == 120         \* angle units per degree
FullCircle == 360 * SubDeg   \* 2 * Math.PI in angle units

\* ANGLE_EPSILON = 1e-5 rad = 0.06875 angle units = 11/160 of an angle unit.
AngleEpsNum == 11
AngleEpsDen == 160

Abs(a) == IF a >= 0 THEN a ELSE -a
Min(a, b) == IF a <= b THEN a ELSE b
Max(a, b) == IF a >= b THEN a ELSE b

\* A function built once and stored as a table (a JavaScript array), rather
\* than recomputed at each access.
ArrayOf(f) == f @@ << >>

\* Division rounded to nearest, symmetric under negation (as floats are).
RDiv(a, b) == IF a >= 0 THEN (2 * a + b) \div (2 * b)
              ELSE -((2 * (-a) + b) \div (2 * b))

SinTable == <<
    0, 175, 349, 523, 698, 872, 1045, 1219, 1392, 1564, 1736, 1908, 2079,
    2250, 2419, 2588, 2756, 2924, 3090, 3256, 3420, 3584, 3746, 3907, 4067, 4226,
    4384, 4540, 4695, 4848, 5000, 5150, 5299, 5446, 5592, 5736, 5878, 6018, 6157,
    6293, 6428, 6561, 6691, 6820, 6947, 7071, 7193, 7314, 7431, 7547, 7660, 7771,
    7880, 7986, 8090, 8192, 8290, 8387, 8480, 8572, 8660, 8746, 8829, 8910, 8988,
    9063, 9135, 9205, 9272, 9336, 9397, 9455, 9511, 9563, 9613, 9659, 9703, 9744,
    9781, 9816, 9848, 9877, 9903, 9925, 9945, 9962, 9976, 9986, 9994, 9998, 10000 >>

SinDeg(d) ==
    LET m == d % 360 IN
    IF m <= 90 THEN SinTable[m + 1]
    ELSE IF m <= 180 THEN SinTable[180 - m + 1]
    ELSE IF m <= 270 THEN -SinTable[m - 180 + 1]
    ELSE -SinTable[360 - m + 1]

CosDeg(d) == SinDeg(d + 90)

\* Math.sin / Math.cos of an angle given in angle units, scaled by TrigScale.
Sin(a) ==
    LET d == a \div SubDeg
        f == a % SubDeg
    IN IF f = 0 THEN SinDeg(d)
       ELSE RDiv(SinDeg(d) * (SubDeg - f) + SinDeg(d + 1) * f, SubDeg)

Cos(a) ==
    LET d == a \div SubDeg
        f == a % SubDeg
    IN IF f = 0 THEN CosDeg(d)
       ELSE RDiv(CosDeg(d) * (SubDeg - f) + CosDeg(d + 1) * f, SubDeg)

\* radiusPx * Math.cos(angle) and radiusPx * Math.sin(angle), in length units.
OrbitX(radiusPx, angle) == RDiv(radiusPx * Cos(angle) * FP, TrigScale)
OrbitY(radiusPx, angle) == RDiv(radiusPx * Sin(angle) * FP, TrigScale)

\* ------------------------------------------------------------------------
\* Bounds of the model
\* ------------------------------------------------------------------------

MaxItems == 3          \* largest item set supplied to a menu
MaxEvents == 3         \* input events delivered to the force-relaxation menu
MaxPresses == 2        \* presses of the anchor button of DraggableRadialMenu
MaxRecomputes == 3     \* recomputes whose iterations are called on their own
ReplayRadius == 100    \* largest initial orbit radius whose run is replayed whole

\* ------------------------------------------------------------------------
\* Safe-arc angular solver: constants of DraggableRadialMenu.tsx
\* ------------------------------------------------------------------------

MAX_ITERATIONS_FOR_RADIUS_ADJUSTMENT == 100
ORBIT_RADIUS_INCREMENT_PIXELS == 5
MAX_ORBIT_RADIUS_FACTOR == 3
DEFAULT_DRAG_THRESHOLD == 5
DEFAULT_ITEM_SIZE == 40
DEFAULT_MAIN_BUTTON_SIZE == 56
DEFAULT_HOVER_SCALE == 13      \* 1.3, in tenths
resolution == 360
angleStep == FullCircle \div resolution

NoItem == 0           \* hoveredItemId = null; item ids are 1..numItems
NoArc == -1           \* currentArcStart = null
NoCoords == [x |-> -1, y |-> -1]   \* interactionStartCoords = null
NoTimer == [kind |-> "none", itemId |-> NoItem]   \* hoverTimerRef.current = null

\* ------------------------------------------------------------------------
\* Force-relaxation controller: constants of RadialMenu
\* ------------------------------------------------------------------------

CENTER_BUTTON_SIZE == 64
ITEM_BASE_SIZE == 56
ITEM_HOVER_SCALE == 12         \* 1.2, in tenths
ORBIT_RADIUS_REFERENCE == 120
RELAXATION_ITERATIONS == 10
DAMPING_FACTOR == 3            \* 0.3, in tenths
ITEM_MARGIN == 10
SCREEN_PADDING == 20
AttractionPercent == 5         \* attraction strength 0.05, in hundredths

\* Windows (innerWidth, innerHeight) the force-relaxation menu runs in.
ForceWindows == {[width |-> 1200, height |-> 800], [width |-> 1000, height |-> 800]}
\* Anchor positions (top-left) a drag of the centre button leads to.
ForceDragTargets == {[x |-> 568, y |-> 368], [x |-> 40, y |-> 368],
                     [x |-> 880, y |-> 368]}

\* Orbit radii (pixels) the menu is constructed with.
OrbitRadii == {-50, 0, 32, 100, 300}
\* Viewports (innerWidth, innerHeight) the window takes.
Viewports == {[width |-> 400, height |-> 120], [width |-> 1000, height |-> 120]}
\* Pointer targets of a drag: the anchor's top-left before clamping.
DragTargets == {[x |-> 0, y |-> 32], [x |-> 172, y |-> 32], [x |-> 472, y |-> 32]}

VARIABLES
    menuItems,            \* items.length of DraggableRadialMenu (ids 1..menuItems)
    initialOrbitRadius,   \* orbitRadius prop, pixels
    drmIsOpen,            \* isOpen state of DraggableRadialMenu
    actualHoveredItemId,  \* committed hovered id, NoItem for null
    centerPosition,       \* useDraggable position (anchor top-left), pixels
    viewportSize,         \* viewportSize state of the hook, pixels
    itemPositions,        \* itemPositions state: the list handed to the render
    arcPc,                \* "idle", "effect" (layout effect pending), "loop"
    currentOrbitRadius,   \* loop local, pixels
    iterationCount,       \* loop local
    calculatedPositions,  \* loop local: positions in item order
    overlapDetected,      \* loop local of the last iteration
    placementRadius,      \* radius at which calculatedPositions was computed
    placementArcs         \* safeArcs of the iteration that computed it

VARIABLES
    variant,          \* "ref": RadialMenu of part_001 with the motion-value
                      \* hook; "closure": components/RadialMenu.tsx with
                      \* hooks/useDraggable.ts
    items,            \* items.length of the items prop (ids 1..items)
    isOpen,           \* isOpen state
    hoveredItemId,    \* hoveredItemId state, NoItem for null
    position,         \* position state of useDraggable (anchor top-left), pixels
    windowInner,      \* window.innerWidth / innerHeight, pixels
    orbitalItems,     \* orbitalItems state: sequence of ItemState
    positionRef,      \* positionRef.current ("ref" variant)
    orbitalItemsRef,  \* orbitalItemsRef.current ("ref" variant)
    dirty,            \* dependencies changed by the render being committed
    updateQueue,      \* state updates queued by effects, in call order
    lastEvent,        \* the input event being processed (history)
    recomputes,       \* solver runs since that event (history)
    solveInput,       \* item list read by the latest solver run (history)
    events            \* input events delivered so far

VARIABLES
    pointer,                  \* pointer coordinates (clientX, clientY), pixels
    isDragging,               \* isDragging state of useDraggable
    hasMovedBeyondThreshold,  \* hasMovedBeyondThreshold state
    interactionStartCoords,   \* coordinates of the press, NoCoords for null
    dragStartOffset,          \* pointer offset inside the anchor at the press
    isInteractingWithButton,  \* click guard of toggleMenu
    clickTimer,               \* the guard's setTimeout is pending
    farthestSquared,          \* squared distance the pointer got from the
                              \* latest press's start (history)
    lastGesture,              \* the latest gesture step (history)
    presses,                  \* presses of the anchor button so far
    hoverTimerRef,            \* the pending hover timer, NoTimer for null
    overItemId                \* the item the pointer is over, NoItem for none

VARIABLES
    kernelCall,       \* the geometry function applied and its arguments
    kernelResult      \* what it returned

gestureVars == << pointer, isDragging, hasMovedBeyondThreshold, interactionStartCoords,
                  dragStartOffset, isInteractingWithButton, clickTimer,
                  farthestSquared, lastGesture, presses, hoverTimerRef, overItemId >>

kernelVars == << kernelCall, kernelResult >>

forceVars == << variant, items, isOpen, hoveredItemId, position, windowInner,
                orbitalItems, positionRef, orbitalItemsRef, dirty, updateQueue,
                lastEvent, recomputes, solveInput, events >>

arcVars == << menuItems, initialOrbitRadius, drmIsOpen, actualHoveredItemId,
              centerPosition, viewportSize, itemPositions, arcPc,
              currentOrbitRadius, iterationCount, calculatedPositions,
              overlapDetected, placementRadius, placementArcs >>

vars == << arcVars, forceVars, gestureVars, kernelVars >>

\* ------------------------------------------------------------------------
\* Safe-arc angular solver: one iteration of the radius loop
\* ------------------------------------------------------------------------

mainButtonCenterX(center) == center.x * FP + (DEFAULT_MAIN_BUTTON_SIZE * FP) \div 2
mainButtonCenterY(center) == center.y * FP + (DEFAULT_MAIN_BUTTON_SIZE * FP) \div 2

itemRadiusForSafeAngle == (DEFAULT_ITEM_SIZE * DEFAULT_HOVER_SCALE) \div 2

isSafeAngle(angle, radius, center, vp) ==
    LET itemCenterX == mainButtonCenterX(center) + OrbitX(radius, angle)
        itemCenterY == mainButtonCenterY(center) + OrbitY(radius, angle)
    IN /\ itemCenterX - itemRadiusForSafeAngle >= 0
       /\ itemCenterX + itemRadiusForSafeAngle <= vp.width * FP
       /\ itemCenterY - itemRadiusForSafeAngle >= 0
       /\ itemCenterY + itemRadiusForSafeAngle <= vp.height * FP

\* potentialAngles[i].safe for i in 0..resolution-1
potentialAngles(radius, center, vp) ==
    ArrayOf([i \in 0 .. resolution - 1 |->
                 isSafeAngle(i * angleStep, radius, center, vp)])

\* a > b + ANGLE_EPSILON and |a - b| < ANGLE_EPSILON on angles
GtEps(a, b) == a * AngleEpsDen > b * AngleEpsDen + AngleEpsNum
NearEps(a, b) == Abs(a - b) * AngleEpsDen < AngleEpsNum

\* The scan loop over i = 0..resolution.  The loop opens an arc at every safe
\* sample whose predecessor is not safe (or that is sample 0) and closes it at
\* the next sample that is not safe, index resolution counting as not safe;
\* it pushes the arc if end > start + ANGLE_EPSILON.  Arcs are pushed in
\* increasing order of start.
ArcStartsAt(safe, i) == safe[i] /\ (i = 0 \/ ~safe[i - 1])

ArcEndIndex(safe, i) ==
    LET closing == {j \in i + 1 .. resolution : j = resolution \/ ~safe[j]}
    IN CHOOSE j \in closing : \A m \in closing : j <= m

ScanArcs(safe) ==
    LET starts == {i \in 0 .. resolution - 1 :
                      /\ ArcStartsAt(safe, i)
                      /\ GtEps(ArcEndIndex(safe, i) * angleStep, i * angleStep)}
        Nth(k) == CHOOSE i \in starts : Cardinality({m \in starts : m < i}) = k - 1
    IN [k \in 1 .. Cardinality(starts) |->
           LET currentArcStart == Nth(k) * angleStep
               currentAngle == ArcEndIndex(safe, Nth(k)) * angleStep
           IN [start |-> currentArcStart, end |-> currentAngle,
               length |-> currentAngle - currentArcStart]]

\* index of the first arc satisfying P, 0 if none (Array.prototype.find)
FindArc(safeArcs, P(_)) ==
    LET hits == {k \in 1 .. Len(safeArcs) : P(safeArcs[k])}
    IN IF hits = {} THEN 0 ELSE CHOOSE k \in hits : \A m \in hits : k <= m

RemoveAt(s, k) == SubSeq(s, 1, k - 1) \o SubSeq(s, k + 1, Len(s))

\* The scanned arcs left as they are, without the merge across the wrap.
KeepUnmerged(safe, safeArcs) == safeArcs

MergeWrap(safe, safeArcs) ==
    IF safe[0] /\ safe[resolution - 1] /\ Len(safeArcs) > 1
    THEN LET IsFirst(arc) == NearEps(arc.start, 0)
             IsLast(arc) == NearEps(arc.end, (resolution - 1) * angleStep + angleStep)
             f == FindArc(safeArcs, IsFirst)
             l == FindArc(safeArcs, IsLast)
         IN IF f # 0 /\ l # 0 /\ f # l
            THEN LET combinedArc == [start |-> safeArcs[l].start,
                                     end |-> safeArcs[f].end + FullCircle,
                                     length |-> safeArcs[l].length + safeArcs[f].length]
                     without1 == RemoveAt(safeArcs, f)
                     l1 == IF l > f THEN l - 1 ELSE l
                 IN Append(RemoveAt(without1, l1), combinedArc)
            ELSE safeArcs
    ELSE safeArcs

RECURSIVE SumLength(_)
SumLength(safeArcs) ==
    IF safeArcs = << >> THEN 0 ELSE Head(safeArcs).length + SumLength(Tail(safeArcs))

\* Array.prototype.sort with a numeric comparator: a stable sort.  Entries
\* are [key, val] pairs; e goes after every entry whose key is not larger.
RECURSIVE InsertSorted(_, _)
InsertSorted(s, e) ==
    IF s = << >> THEN << e >>
    ELSE IF e.key < Head(s).key THEN << e >> \o s
    ELSE << Head(s) >> \o InsertSorted(Tail(s), e)

RECURSIVE SortKeyed(_)
SortKeyed(s) ==
    IF s = << >> THEN << >>
    ELSE InsertSorted(SortKeyed(SubSeq(s, 1, Len(s) - 1)), s[Len(s)])

\* safeArcs.sort((a, b) => a.start - b.start)
SortArcsByStart(safeArcs) ==
    LET keyed == [k \in 1 .. Len(safeArcs) |->
                     [key |-> safeArcs[k].start, val |-> safeArcs[k]]]
        sorted == SortKeyed(keyed)
    IN [k \in 1 .. Len(sorted) |-> sorted[k].val]

\* The list left in the order the items were placed.
KeepPlacementOrder(positions) == positions

\* calculatedPositions.sort((a, b) => a.angle - b.angle)
SortPositionsByAngle(positions) ==
    LET keyed == [k \in 1 .. Len(positions) |->
                     [key |-> positions[k].angle, val |-> positions[k]]]
        sorted == SortKeyed(keyed)
    IN [k \in 1 .. Len(sorted) |-> sorted[k].val]

MakePosition(radius, angle) ==
    [x |-> OrbitX(radius, angle), y |-> OrbitY(radius, angle), angle |-> angle]

\* The arc that takes target (in concatenated-arc space), walking from arc k
\* with cumulative length cum; 0 if no arc takes it.
RECURSIVE LocateArc(_, _, _, _)
LocateArc(safeArcs, k, cum, target) ==
    IF k > Len(safeArcs) THEN [arc |-> 0, cum |-> cum]
    ELSE IF /\ target * AngleEpsDen >= cum * AngleEpsDen - AngleEpsNum
            /\ target * AngleEpsDen < (cum + safeArcs[k].length) * AngleEpsDen + AngleEpsNum
         THEN [arc |-> k, cum |-> cum]
         ELSE LocateArc(safeArcs, k + 1, cum + safeArcs[k].length, target)

PlaceOnArcs(i, numItems, radius, sortedArcs, totalSafeAngleLength) ==
    LET \* (i + 0.5) * (totalSafeAngleLength / numItems), i counted from 0
        target == ((2 * i + 1) * totalSafeAngleLength) \div (2 * numItems)
        loc == LocateArc(sortedArcs, 1, 0, target)
    IN IF loc.arc # 0
       THEN LET arc == sortedArcs[loc.arc]
                angleOffsetWithinArc == target - loc.cum
                clampedAngleOffset == Max(0, Min(angleOffsetWithinArc, arc.length))
                finalAngle == (arc.start + clampedAngleOffset) % FullCircle
            IN MakePosition(radius, finalAngle)
       ELSE LET fallbackAngle ==
                    IF Len(sortedArcs) > 0
                    THEN (sortedArcs[1].start + sortedArcs[1].length \div 2) % FullCircle
                    ELSE (i * FullCircle) \div numItems
            IN MakePosition(radius, fallbackAngle)

\* safeArcs after the scan and the wrap merge
SafeArcsAt(radius, center, vp) ==
    LET safe == potentialAngles(radius, center, vp)
    IN MergeWrap(safe, ScanArcs(safe))

\* totalSafeAngleLength < ANGLE_EPSILON * numItems
NegligibleArcs(safeArcs, numItems) ==
    SumLength(safeArcs) * AngleEpsDen < AngleEpsNum * numItems

\* PlaceItems without the uniform fallback: nothing is placed when no safe
\* arc is left.
PlaceItemsNoFallback(numItems, radius, safeArcs) ==
    IF NegligibleArcs(safeArcs, numItems)
    THEN << >>
    ELSE LET sortedArcs == SortArcsByStart(safeArcs)
             total == SumLength(safeArcs)
         IN ArrayOf([k \in 1 .. numItems |->
                        PlaceOnArcs(k - 1, numItems, radius, sortedArcs, total)])

\* PlaceItems with the uniform fallback shifted by half a slot.
PlaceItemsShiftedFallback(numItems, radius, safeArcs) ==
    IF NegligibleArcs(safeArcs, numItems)
    THEN ArrayOf([k \in 1 .. numItems |->
                     MakePosition(radius, ((2 * k - 1) * FullCircle) \div (2 * numItems))])
    ELSE PlaceItemsNoFallback(numItems, radius, safeArcs)

\* calculatedPositions of one iteration, in item order
PlaceItems(numItems, radius, safeArcs) ==
    IF NegligibleArcs(safeArcs, numItems)
    THEN ArrayOf([k \in 1 .. numItems |->
                     MakePosition(radius, ((k - 1) * FullCircle) \div numItems)])
    ELSE LET sortedArcs == SortArcsByStart(safeArcs)
             total == SumLength(safeArcs)
         IN ArrayOf([k \in 1 .. numItems |->
                        PlaceOnArcs(k - 1, numItems, radius, sortedArcs, total)])

\* diameter of item k as the overlap check and the render see it
ActualSize(k, hovered) ==
    IF k = hovered THEN DEFAULT_ITEM_SIZE * DEFAULT_HOVER_SCALE
    ELSE DEFAULT_ITEM_SIZE * 10

\* distanceSquared < requiredDistance^2 - ANGLE_EPSILON; the epsilon
\* (1e-5 px^2) is below one unit of squared length, so on integers the test
\* is distanceSquared < requiredDistance^2.
PairOverlaps(positions, i, j, hovered) ==
    LET requiredDistance == ActualSize(i, hovered) \div 2 + ActualSize(j, hovered) \div 2
        dx == positions[i].x - positions[j].x
        dy == positions[i].y - positions[j].y
        distanceSquared == dx * dx + dy * dy
    IN distanceSquared < requiredDistance * requiredDistance

DetectOverlap(positions, numItems, hovered) ==
    /\ Len(positions) > 1
    /\ numItems = Len(positions)
    /\ \E i \in 1 .. Len(positions) : \E j \in i + 1 .. Len(positions) :
           PairOverlaps(positions, i, j, hovered)

maxOrbitRadius == initialOrbitRadius * MAX_ORBIT_RADIUS_FACTOR

\* The escalation without the cap at the ceiling.
EscalateRadiusUncapped(radius, maxRadius) == radius + ORBIT_RADIUS_INCREMENT_PIXELS

\* currentOrbitRadius += ORBIT_RADIUS_INCREMENT_PIXELS;
\* currentOrbitRadius = Math.min(currentOrbitRadius, maxOrbitRadius)
EscalateRadius(radius, maxRadius) ==
    Min(radius + ORBIT_RADIUS_INCREMENT_PIXELS, maxRadius)

\* ------------------------------------------------------------------------
\* Safe-arc angular solver: the layout effect and the events that trigger it
\* ------------------------------------------------------------------------

\* A clamp to the far edge only: Math.min without the Math.max(0, ...).
ClampPositionFarEdgeOnly(p, vp) ==
    [x |-> Min(p.x, vp.width - DEFAULT_MAIN_BUTTON_SIZE),
     y |-> Min(p.y, vp.height - DEFAULT_MAIN_BUTTON_SIZE)]

ClampPosition(p, vp) ==
    [x |-> Max(0, Min(p.x, vp.width - DEFAULT_MAIN_BUTTON_SIZE)),
     y |-> Max(0, Min(p.y, vp.height - DEFAULT_MAIN_BUTTON_SIZE))]

InitialPosition(vp) ==
    [x |-> vp.width \div 2 - DEFAULT_MAIN_BUTTON_SIZE \div 2,
     y |-> vp.height \div 2 - DEFAULT_MAIN_BUTTON_SIZE \div 2]

ArcInit ==
    /\ menuItems \in 0 .. MaxItems
    /\ initialOrbitRadius \in OrbitRadii
    /\ drmIsOpen = FALSE
    /\ actualHoveredItemId = NoItem
    /\ viewportSize \in Viewports
    /\ centerPosition = ClampPosition(InitialPosition(viewportSize), viewportSize)
    /\ itemPositions = << >>
    /\ arcPc = "effect"
    /\ currentOrbitRadius = 0
    /\ iterationCount = 0
    /\ calculatedPositions = << >>
    /\ overlapDetected = FALSE
    /\ placementRadius = 0
    /\ placementArcs = << >>

loopLocals == << currentOrbitRadius, iterationCount, calculatedPositions,
                 overlapDetected, placementRadius, placementArcs >>

\* The effect body as one function of the hook's inputs: the while loop from
\* the given radius and pass count, then the final sort.
RECURSIVE ArcLoop(_, _, _, _, _, _, _)
ArcLoop(numItems, radius, maxRadius, center, vp, hovered, count) ==
    LET AfterPlacement(positions) ==
            IF \/ ~DetectOverlap(positions, numItems, hovered)
               \/ radius >= maxRadius
               \/ count + 1 >= MAX_ITERATIONS_FOR_RADIUS_ADJUSTMENT
            THEN SortPositionsByAngle(positions)
            ELSE ArcLoop(numItems, EscalateRadius(radius, maxRadius),
                         maxRadius, center, vp, hovered, count + 1)
    IN CHOOSE result \in
           {AfterPlacement(positions) :
               positions \in {PlaceItems(numItems, radius,
                                         SafeArcsAt(radius, center, vp))}} : TRUE

SolveArc(open, numItems, radius, center, vp, hovered) ==
    IF ~open \/ numItems = 0 \/ radius <= 0 THEN << >>
    ELSE ArcLoop(numItems, radius, radius * MAX_ORBIT_RADIUS_FACTOR, center, vp,
                 hovered, 0)

\* A variant of the effect start whose loop resumes from the radius the
\* previous run ended on.
ArcEffectStartResumingRadius ==
    /\ UNCHANGED << forceVars, gestureVars, kernelVars >>
    /\ arcPc = "effect"
    /\ IF ~drmIsOpen \/ menuItems = 0 \/ initialOrbitRadius <= 0
       THEN /\ itemPositions' = << >>
            /\ arcPc' = "idle"
            /\ UNCHANGED << currentOrbitRadius, iterationCount, calculatedPositions,
                            overlapDetected, placementRadius, placementArcs >>
       ELSE /\ currentOrbitRadius' = Max(currentOrbitRadius, initialOrbitRadius)
            /\ iterationCount' = 0
            /\ calculatedPositions' = << >>
            /\ overlapDetected' = FALSE
            /\ placementRadius' = 0
            /\ placementArcs' = << >>
            /\ arcPc' = "loop"
            /\ UNCHANGED itemPositions
    /\ UNCHANGED << menuItems, initialOrbitRadius, drmIsOpen, actualHoveredItemId,
                    centerPosition, viewportSize >>

\* A variant of the short-circuit test that forgets the orbit radius.
ShortCircuitIgnoringRadius == ~drmIsOpen \/ menuItems = 0

\* if (!isOpen || numItems === 0 || ... || initialOrbitRadius <= 0); window
\* is always defined in the browser.
ShortCircuit == ~drmIsOpen \/ menuItems = 0 \/ initialOrbitRadius <= 0

\* The effect starts: short-circuit to the empty list, or enter the loop.
ArcEffectStart ==
    /\ UNCHANGED << forceVars, gestureVars, kernelVars >>
    /\ arcPc = "effect"
    /\ IF ShortCircuit
       THEN /\ itemPositions' = << >>
            /\ arcPc' = "idle"
            /\ UNCHANGED loopLocals
       ELSE /\ currentOrbitRadius' = initialOrbitRadius
            /\ iterationCount' = 0
            /\ calculatedPositions' = << >>
            /\ overlapDetected' = FALSE
            /\ placementRadius' = 0
            /\ placementArcs' = << >>
            /\ arcPc' = "loop"
            /\ UNCHANGED itemPositions
    /\ UNCHANGED << menuItems, initialOrbitRadius, drmIsOpen, actualHoveredItemId,
                    centerPosition, viewportSize >>

\* One pass of the while loop; the pass that leaves the loop also sorts the
\* positions by angle and stores them (setItemPositions).
ArcIterate ==
    /\ UNCHANGED << forceVars, gestureVars, kernelVars >>
    /\ arcPc = "loop"
    /\ iterationCount < MAX_ITERATIONS_FOR_RADIUS_ADJUSTMENT
    /\ \E safeArcs \in {SafeArcsAt(currentOrbitRadius, centerPosition, viewportSize)} :
       \E positions \in {PlaceItems(menuItems, currentOrbitRadius, safeArcs)} :
       \E overlap \in {DetectOverlap(positions, menuItems, actualHoveredItemId)} :
          LET break == ~overlap \/ currentOrbitRadius >= maxOrbitRadius
              nextRadius == IF break THEN currentOrbitRadius
                            ELSE EscalateRadius(currentOrbitRadius, maxOrbitRadius)
              leave == break \/ iterationCount + 1 >= MAX_ITERATIONS_FOR_RADIUS_ADJUSTMENT
          IN /\ iterationCount' = iterationCount + 1
             /\ calculatedPositions' = positions
             /\ overlapDetected' = overlap
             /\ placementRadius' = currentOrbitRadius
             /\ placementArcs' = safeArcs
             /\ currentOrbitRadius' = nextRadius
             /\ IF leave
                THEN /\ itemPositions' = SortPositionsByAngle(positions)
                     /\ arcPc' = "idle"
                ELSE /\ arcPc' = "loop"
                     /\ UNCHANGED itemPositions
    /\ UNCHANGED << menuItems, initialOrbitRadius, drmIsOpen, actualHoveredItemId,
                    centerPosition, viewportSize >>

\* setIsOpen(prev => !prev); closing clears the committed hover.
ArcToggleMenu ==
    /\ UNCHANGED << forceVars, gestureVars, kernelVars >>
    /\ arcPc = "idle"
    /\ drmIsOpen' = ~drmIsOpen
    /\ actualHoveredItemId' = IF drmIsOpen THEN NoItem ELSE actualHoveredItemId
    /\ arcPc' = "effect"
    /\ UNCHANGED << menuItems, initialOrbitRadius, centerPosition, viewportSize,
                    itemPositions >>
    /\ UNCHANGED loopLocals

\* A hover timer fires and commits a hovered id (or clears it).
ArcSetHovered ==
    /\ UNCHANGED << forceVars, gestureVars, kernelVars >>
    /\ arcPc = "idle"
    /\ \E id \in 0 .. menuItems :
          /\ id # actualHoveredItemId
          /\ actualHoveredItemId' = id
    /\ arcPc' = "effect"
    /\ UNCHANGED << menuItems, initialOrbitRadius, drmIsOpen, centerPosition,
                    viewportSize, itemPositions >>
    /\ UNCHANGED loopLocals

\* handleInteractionMove: every drag-move event stores a clamped position.
ArcDragMove ==
    /\ UNCHANGED << forceVars, gestureVars, kernelVars >>
    /\ arcPc = "idle"
    /\ \E t \in DragTargets :
          /\ ClampPosition(t, viewportSize) # centerPosition
          /\ centerPosition' = ClampPosition(t, viewportSize)
    /\ arcPc' = "effect"
    /\ UNCHANGED << menuItems, initialOrbitRadius, drmIsOpen, actualHoveredItemId,
                    viewportSize, itemPositions >>
    /\ UNCHANGED loopLocals

\* window resize: the hook stores the viewport, useDraggable clamps the anchor.
ArcResize ==
    /\ UNCHANGED << forceVars, gestureVars, kernelVars >>
    /\ arcPc = "idle"
    /\ \E vp \in Viewports :
          /\ vp # viewportSize
          /\ viewportSize' = vp
          /\ centerPosition' = ClampPosition(centerPosition, vp)
    /\ arcPc' = "effect"
    /\ UNCHANGED << menuItems, initialOrbitRadius, drmIsOpen, actualHoveredItemId,
                    itemPositions >>
    /\ UNCHANGED loopLocals

ArcNext ==
    \/ ArcEffectStart
    \/ ArcIterate
    \/ ArcToggleMenu
    \/ ArcSetHovered
    \/ ArcDragMove
    \/ ArcResize

\* ------------------------------------------------------------------------
\* Vector kernel (lib/geometry.ts); vectors are in 1/FP pixel
\* ------------------------------------------------------------------------

ZeroVector == [x |-> 0, y |-> 0]

addVectors(v1, v2) == [x |-> v1.x + v2.x, y |-> v1.y + v2.y]

subtractVectors(v1, v2) == [x |-> v1.x - v2.x, y |-> v1.y - v2.y]

\* multiplyVector(v, scalar) with the scalar given as the fraction num / den.
multiplyVector(v, num, den) == [x |-> RDiv(v.x * num, den), y |-> RDiv(v.y * num, den)]

RECURSIVE SqrtSearch(_, _, _)
SqrtSearch(n, lo, hi) ==
    IF lo = hi THEN lo
    ELSE LET mid == (lo + hi + 1) \div 2
         IN IF mid * mid <= n THEN SqrtSearch(n, mid, hi)
                              ELSE SqrtSearch(n, lo, mid - 1)

\* Math.sqrt rounded to the nearest integer, for n below 30000 squared.
Sqrt(n) ==
    LET r == SqrtSearch(n, 0, 30000)
    IN IF n - r * r > r THEN r + 1 ELSE r

MagnitudeSquared(v) == v.x * v.x + v.y * v.y

getMagnitude(v) == Sqrt(MagnitudeSquared(v))

\* The unit vector, scaled by TrigScale.
normalizeVector(v) ==
    LET mag == getMagnitude(v)
    IN IF mag = 0 THEN ZeroVector
       ELSE [x |-> RDiv(v.x * TrigScale, mag), y |-> RDiv(v.y * TrigScale, mag)]

limitMagnitude(v, maxMag) ==
    IF MagnitudeSquared(v) > maxMag * maxMag
    THEN multiplyVector(normalizeVector(v), maxMag, TrigScale)
    ELSE v

\* The repulsion with the whole overlap as its magnitude.
calculateRepulsionForceWhole(circleA, circleB) ==
    LET dx == circleA.x - circleB.x
        dy == circleA.y - circleB.y
        distanceSquared == dx * dx + dy * dy
        combinedRadius == circleA.radius + circleB.radius
    IN IF distanceSquared < combinedRadius * combinedRadius /\ distanceSquared > 0
       THEN [x |-> RDiv(dx * (combinedRadius - Sqrt(distanceSquared)),
                        Sqrt(distanceSquared)),
             y |-> RDiv(dy * (combinedRadius - Sqrt(distanceSquared)),
                        Sqrt(distanceSquared))]
       ELSE ZeroVector

\* Force on circleA pushing it away from circleB: half the overlap, along
\* the line of centres; none when the circles are apart or concentric.
calculateRepulsionForce(circleA, circleB) ==
    LET dx == circleA.x - circleB.x
        dy == circleA.y - circleB.y
        distanceSquared == dx * dx + dy * dy
        combinedRadius == circleA.radius + circleB.radius
    IN IF distanceSquared < combinedRadius * combinedRadius /\ distanceSquared > 0
       THEN LET distance == Sqrt(distanceSquared)
                overlap == combinedRadius - distance
            IN [x |-> RDiv(dx * overlap, 2 * distance),
                y |-> RDiv(dy * overlap, 2 * distance)]
       ELSE ZeroVector

\* The four sequential tests of calculateEdgeForce: the right (bottom) test
\* assigns force.x (force.y) after the left (top) test and replaces its value.
calculateEdgeForce(itemX, itemY, itemRadius, screenPadding, win) ==
    LET innerWidth == win.width * FP
        innerHeight == win.height * FP
        left == itemX - itemRadius < screenPadding
        right == itemX + itemRadius > innerWidth - screenPadding
        top == itemY - itemRadius < screenPadding
        bottom == itemY + itemRadius > innerHeight - screenPadding
    IN [x |-> IF right
              THEN -RDiv((itemX + itemRadius) - (innerWidth - screenPadding), 2)
              ELSE IF left THEN RDiv(screenPadding - (itemX - itemRadius), 2)
              ELSE 0,
        y |-> IF bottom
              THEN -RDiv((itemY + itemRadius) - (innerHeight - screenPadding), 2)
              ELSE IF top THEN RDiv(screenPadding - (itemY - itemRadius), 2)
              ELSE 0]

\* Pull towards targetPos with magnitude distance * strength (strength in
\* hundredths).
calculateAttractionForce(currentPos, targetPos, strengthPercent) ==
    LET direction == subtractVectors(targetPos, currentPos)
    IN multiplyVector(normalizeVector(direction),
                      getMagnitude(direction) * strengthPercent, TrigScale * 100)

\* Math.atan2(y, x) for x, y >= 0, in whole degrees: the largest d of lo..hi
\* with tan(d) <= y / x.
RECURSIVE AtanSearch(_, _, _, _)
AtanSearch(y, x, lo, hi) ==
    IF lo = hi THEN lo
    ELSE LET mid == (lo + hi + 1) \div 2
         IN IF SinDeg(mid) * x <= CosDeg(mid) * y THEN AtanSearch(y, x, mid, hi)
                                                   ELSE AtanSearch(y, x, lo, mid - 1)

\* Math.atan2(y, x) to the nearest degree, in angle units of (-180, 180] degrees.
Atan2(y, x) ==
    IF x = 0 /\ y = 0 THEN 0
    ELSE LET ay == Abs(y)
             ax == Abs(x)
             below == AtanSearch(ay, ax, 0, 90)
             d == IF below < 90 /\
                     Abs(SinDeg(below + 1) * ax - CosDeg(below + 1) * ay) <
                     Abs(SinDeg(below) * ax - CosDeg(below) * ay)
                  THEN below + 1 ELSE below
             q == IF x >= 0 THEN d ELSE 180 - d
         IN (IF y >= 0 THEN q ELSE -q) * SubDeg

\* ------------------------------------------------------------------------
\* Force-relaxation solver (RadialMenu: updateItemPositions)
\* ------------------------------------------------------------------------

\* Initial item states: ids 1..count, evenly spaced on the reference orbit.
SeedItems(count) ==
    ArrayOf([k \in 1 .. count |->
        LET angle == ((k - 1) * FullCircle) \div count
        IN [id |-> k,
            x |-> OrbitX(ORBIT_RADIUS_REFERENCE, angle),
            y |-> OrbitY(ORBIT_RADIUS_REFERENCE, angle),
            targetX |-> OrbitX(ORBIT_RADIUS_REFERENCE, angle),
            targetY |-> OrbitY(ORBIT_RADIUS_REFERENCE, angle),
            currentRadius |-> ORBIT_RADIUS_REFERENCE * FP,
            currentAngle |-> angle,
            baseAngle |-> angle,
            scale |-> 10,
            size |-> ITEM_BASE_SIZE * 10]])

\* The circle an item repels with: half its size plus half the margin.
ItemCircle(item) ==
    [x |-> item.x, y |-> item.y, radius |-> item.size \div 2 + (ITEM_MARGIN * FP) \div 2]

\* A centre circle whose radius reaches the reference orbit.
CenterCircleReachingOrbit ==
    [x |-> 0, y |-> 0, radius |-> ORBIT_RADIUS_REFERENCE * FP]

CenterCircle ==
    [x |-> 0, y |-> 0, radius |-> (CENTER_BUTTON_SIZE * FP) \div 2 + (ITEM_MARGIN * FP) \div 2]

\* Sum of the repulsion on item i from items j..Len(list), j # i.
RECURSIVE SumRepulsion(_, _, _)
SumRepulsion(list, i, j) ==
    IF j > Len(list) THEN ZeroVector
    ELSE IF j = i THEN SumRepulsion(list, i, j + 1)
    ELSE addVectors(calculateRepulsionForce(ItemCircle(list[i]), ItemCircle(list[j])),
                    SumRepulsion(list, i, j + 1))

\* totalForce of item i for one iteration, limited to half its size.
ItemForce(list, i, currentPosition, win) ==
    LET itemA == list[i]
        absoluteCenterX == currentPosition.x * FP + (CENTER_BUTTON_SIZE * FP) \div 2
        absoluteCenterY == currentPosition.y * FP + (CENTER_BUTTON_SIZE * FP) \div 2
        edgeForce == calculateEdgeForce(absoluteCenterX + itemA.x,
                                        absoluteCenterY + itemA.y,
                                        itemA.size \div 2, SCREEN_PADDING * FP, win)
        centerRepulsion == calculateRepulsionForce(ItemCircle(itemA), CenterCircle)
        ideal == [x |-> OrbitX(ORBIT_RADIUS_REFERENCE, itemA.baseAngle),
                  y |-> OrbitY(ORBIT_RADIUS_REFERENCE, itemA.baseAngle)]
        attraction == calculateAttractionForce([x |-> itemA.x, y |-> itemA.y], ideal,
                                               AttractionPercent)
        totalForce == addVectors(addVectors(addVectors(edgeForce,
                          SumRepulsion(list, i, 1)), centerRepulsion), attraction)
    IN limitMagnitude(totalForce, itemA.size \div 2)

\* nextPositions.find(p => p.id === item.id): the first move carrying the id.
FindMove(list, id) ==
    CHOOSE m \in 1 .. Len(list) :
        /\ list[m].id = id
        /\ \A e \in 1 .. m - 1 : list[e].id # id

\* The damped move without the constraint on the radius.
MoveItemUnclamped(item, move) ==
    LET newX == item.x + RDiv(move.x * DAMPING_FACTOR, 10)
        newY == item.y + RDiv(move.y * DAMPING_FACTOR, 10)
    IN [item EXCEPT !.x = newX, !.y = newY, !.targetX = newX, !.targetY = newY,
                    !.currentRadius = Sqrt(newX * newX + newY * newY),
                    !.currentAngle = Atan2(newY, newX)]

\* The damped move of one item and its polar form.
MoveItem(item, move) ==
    LET newX == item.x + RDiv(move.x * DAMPING_FACTOR, 10)
        newY == item.y + RDiv(move.y * DAMPING_FACTOR, 10)
        newRadius == Sqrt(newX * newX + newY * newY)
    IN [item EXCEPT !.x = newX, !.y = newY, !.targetX = newX, !.targetY = newY,
                    !.currentRadius = Max(0, Min(newRadius, ORBIT_RADIUS_REFERENCE * 2 * FP)),
                    !.currentAngle = Atan2(newY, newX)]

\* An iteration that moves each item as soon as its force is known, so that
\* later items see the offsets already moved.
RECURSIVE SequentialFrom(_, _, _, _)
SequentialFrom(list, i, currentPosition, win) ==
    IF i > Len(list) THEN list
    ELSE SequentialFrom([list EXCEPT
                            ![i] = MoveItem(list[i],
                                            ItemForce(list, i, currentPosition, win))],
                        i + 1, currentPosition, win)

RelaxOnceSequential(list, currentPosition, win) ==
    SequentialFrom(list, 1, currentPosition, win)

\* One iteration: every force is computed from the same snapshot, then applied.
RelaxOnce(list, currentPosition, win) ==
    LET nextPositions == ArrayOf([i \in 1 .. Len(list) |->
                                     ItemForce(list, i, currentPosition, win)])
    IN ArrayOf([k \in 1 .. Len(list) |->
                   MoveItem(list[k], nextPositions[FindMove(list, list[k].id)])])

RECURSIVE Relax(_, _, _, _)
Relax(list, currentPosition, win, iterations) ==
    IF iterations = 0 THEN list
    ELSE Relax(RelaxOnce(list, currentPosition, win), currentPosition, win, iterations - 1)

\* The list updateItemPositions passes to setOrbitalItems.
updateItemPositions(list, currentPosition, win) ==
    Relax(list, currentPosition, win, RELAXATION_ITERATIONS)

\* A hover updater that resizes the hovered item and leaves every scale alone.
ApplyHoverSizesOnly(prevItems, hovered) ==
    ArrayOf([k \in 1 .. Len(prevItems) |->
        [prevItems[k] EXCEPT
            !.size = IF prevItems[k].id = hovered THEN ITEM_BASE_SIZE * ITEM_HOVER_SCALE
                                                  ELSE ITEM_BASE_SIZE * 10]])

\* The hover effect's updater: scale and size of every item from the hovered id.
ApplyHoverSizes(prevItems, hovered) ==
    ArrayOf([k \in 1 .. Len(prevItems) |->
        [prevItems[k] EXCEPT
            !.scale = IF prevItems[k].id = hovered THEN ITEM_HOVER_SCALE ELSE 10,
            !.size = IF prevItems[k].id = hovered THEN ITEM_BASE_SIZE * ITEM_HOVER_SCALE
                                                  ELSE ITEM_BASE_SIZE * 10]])

\* The initialPosition argument RadialMenu passes to useDraggable on a render.
CenteredPosition(win) ==
    [x |-> win.width \div 2 - CENTER_BUTTON_SIZE \div 2,
     y |-> win.height \div 2 - CENTER_BUTTON_SIZE \div 2]

\* ------------------------------------------------------------------------
\* Force-relaxation controller (RadialMenu): events, effects, state updates
\* ------------------------------------------------------------------------

ForceInit ==
    /\ variant \in {"ref", "closure"}
    /\ items \in 1 .. MaxItems
    /\ isOpen = FALSE
    /\ hoveredItemId = NoItem
    /\ windowInner \in ForceWindows
    /\ position = CenteredPosition(windowInner)
    /\ orbitalItems = SeedItems(items)
    /\ positionRef = position
    /\ orbitalItemsRef = orbitalItems
    /\ dirty = {}
    /\ updateQueue = << >>
    /\ lastEvent = "mount"
    /\ recomputes = 0
    /\ solveInput = << >>
    /\ events = 0

\* No render, effect or state update is pending.
Quiescent == dirty = {} /\ updateQueue = << >>

\* A queued state update: setPosition(updater), setOrbitalItems(updater) of
\* the hover effect, or setOrbitalItems(newItems) of updateItemPositions.
PositionUpdate(p) == [kind |-> "position", pos |-> p, hovered |-> NoItem, list |-> << >>]
SizesUpdate(h) == [kind |-> "sizes", pos |-> ZeroVector, hovered |-> h, list |-> << >>]
ReplaceUpdate(l) == [kind |-> "replace", pos |-> ZeroVector, hovered |-> NoItem, list |-> l]

\* Ids of the items that are rendered and can be hovered.
RenderedIds == 1 .. Min(items, Len(orbitalItems))

\* Dependencies of the effect that calls updateItemPositions.  In the "ref"
\* variant the callback's identity stands for items and windowSize.
RecomputeDeps ==
    IF variant = "ref"
    THEN {"isOpen", "hoveredItemId", "items.length", "windowSize", "items"}
    ELSE {"isOpen", "position", "hoveredItemId", "items.length"}

\* A recompute effect with no isOpen test: it calls updateItemPositions
\* whenever one of its dependencies changed.
RecomputeEffectRunsWhileClosed == RecomputeDeps \cap dirty # {}

\* The recompute effect runs when a dependency changed, and calls
\* updateItemPositions if (isOpen).
RecomputeEffectRuns == isOpen /\ RecomputeDeps \cap dirty # {}

\* toggleMenu: setIsOpen(!isOpen).
ForceToggleMenu ==
    /\ UNCHANGED << arcVars, gestureVars, kernelVars >>
    /\ Quiescent
    /\ events < MaxEvents
    /\ events' = events + 1
    /\ isOpen' = ~isOpen
    /\ dirty' = {"isOpen"}
    /\ lastEvent' = "toggle"
    /\ recomputes' = 0
    /\ UNCHANGED << variant, items, hoveredItemId, position, windowInner, orbitalItems,
                    positionRef, orbitalItemsRef, updateQueue, solveInput >>

\* handleItemHoverStart(itemId): setHoveredItemId(itemId).
ForceHoverStart ==
    /\ UNCHANGED << arcVars, gestureVars, kernelVars >>
    /\ Quiescent
    /\ events < MaxEvents
    /\ events' = events + 1
    /\ \E id \in RenderedIds :
          /\ id # hoveredItemId
          /\ hoveredItemId' = id
    /\ dirty' = {"hoveredItemId"}
    /\ lastEvent' = "hover"
    /\ recomputes' = 0
    /\ UNCHANGED << variant, items, isOpen, position, windowInner, orbitalItems,
                    positionRef, orbitalItemsRef, updateQueue, solveInput >>

\* handleItemHoverEnd: setHoveredItemId(null).
ForceHoverEnd ==
    /\ UNCHANGED << arcVars, gestureVars, kernelVars >>
    /\ Quiescent
    /\ events < MaxEvents
    /\ events' = events + 1
    /\ hoveredItemId # NoItem
    /\ hoveredItemId' = NoItem
    /\ dirty' = {"hoveredItemId"}
    /\ lastEvent' = "hover"
    /\ recomputes' = 0
    /\ UNCHANGED << variant, items, isOpen, position, windowInner, orbitalItems,
                    positionRef, orbitalItemsRef, updateQueue, solveInput >>

\* One drag-move of the centre button.  "ref": the drag writes the motion
\* values, whose onChange listeners call setPosition. "closure": onPan calls
\* handleDrag, which adds the delta to position.
ForceDragMove ==
    /\ UNCHANGED << arcVars, gestureVars, kernelVars >>
    /\ Quiescent
    /\ events < MaxEvents
    /\ events' = events + 1
    /\ \E t \in ForceDragTargets :
          /\ t # position
          /\ position' = t
    /\ dirty' = {"position"}
    /\ lastEvent' = "dragMove"
    /\ recomputes' = 0
    /\ UNCHANGED << variant, items, isOpen, hoveredItemId, windowInner, orbitalItems,
                    positionRef, orbitalItemsRef, updateQueue, solveInput >>

\* The drag ends. "ref": no handler is registered. "closure": onPanEnd calls
\* handleDragEndMotion, which only calls the absent options.onDragEnd.
ForceDragEnd ==
    /\ UNCHANGED << arcVars, gestureVars, kernelVars >>
    /\ Quiescent
    /\ events < MaxEvents
    /\ events' = events + 1
    /\ lastEvent = "dragMove"
    /\ lastEvent' = "dragEnd"
    /\ recomputes' = 0
    /\ UNCHANGED << variant, items, isOpen, hoveredItemId, position, windowInner,
                    orbitalItems, positionRef, orbitalItemsRef, dirty, updateQueue,
                    solveInput >>

\* The window is resized. "ref": the listener stores windowSize, and the
\* render passes a new initialPosition to useDraggable when the centre moved.
\* "closure": nothing listens, nothing re-renders.
ForceResize ==
    /\ UNCHANGED << arcVars, gestureVars, kernelVars >>
    /\ Quiescent
    /\ events < MaxEvents
    /\ events' = events + 1
    /\ \E win \in ForceWindows :
          /\ win # windowInner
          /\ windowInner' = win
          /\ dirty' = IF variant = "ref"
                      THEN {"windowSize"} \cup
                           (IF CenteredPosition(win) # CenteredPosition(windowInner)
                            THEN {"initialPosition"} ELSE {})
                      ELSE {}
    /\ lastEvent' = "resize"
    /\ recomputes' = 0
    /\ UNCHANGED << variant, items, isOpen, hoveredItemId, position, orbitalItems,
                    positionRef, orbitalItemsRef, updateQueue, solveInput >>

\* The parent renders RadialMenu with a new items array of n items.  In the
\* "closure" variant the render reads orbitalItems[index] for every supplied
\* item, so only arrays no longer than the seeded list are rendered.
ForceItemsChange ==
    /\ UNCHANGED << arcVars, gestureVars, kernelVars >>
    /\ Quiescent
    /\ events < MaxEvents
    /\ events' = events + 1
    /\ \E n \in 1 .. MaxItems :
          /\ variant = "closure" => n <= Len(orbitalItems)
          /\ items' = n
          /\ dirty' = {"items"} \cup (IF n # items THEN {"items.length"} ELSE {})
          /\ lastEvent' = IF n # items THEN "itemsCount" ELSE "itemsSame"
    /\ recomputes' = 0
    /\ UNCHANGED << variant, isOpen, hoveredItemId, position, windowInner, orbitalItems,
                    positionRef, orbitalItemsRef, updateQueue, solveInput >>

\* The passive effects of one commit, in declaration order: useDraggable's
\* initialPosition effect, the two ref effects, the hover effect, the
\* recompute effect.  State updates they request are queued in call order.
ForceRunEffects ==
    /\ UNCHANGED << arcVars, gestureVars, kernelVars >>
    /\ dirty # {}
    /\ LET motionSet == /\ variant = "ref"
                        /\ "initialPosition" \in dirty
                        /\ CenteredPosition(windowInner) # position
           newPositionRef == IF variant = "ref" /\ "position" \in dirty
                             THEN position ELSE positionRef
           newItemsRef == IF variant = "ref" /\ "orbitalItems" \in dirty
                          THEN orbitalItems ELSE orbitalItemsRef
           hoverRuns == "hoveredItemId" \in dirty
           recomputeRuns == RecomputeEffectRuns
           readItems == IF variant = "ref" THEN newItemsRef ELSE orbitalItems
           readPosition == IF variant = "ref" THEN newPositionRef ELSE position
       IN /\ positionRef' = newPositionRef
          /\ orbitalItemsRef' = newItemsRef
          /\ recomputes' = IF recomputeRuns THEN recomputes + 1 ELSE recomputes
          /\ solveInput' = IF recomputeRuns THEN readItems ELSE solveInput
          /\ \E solved \in {IF recomputeRuns
                            THEN updateItemPositions(readItems, readPosition, windowInner)
                            ELSE << >>} :
                updateQueue' =
                    (IF motionSet THEN << PositionUpdate(CenteredPosition(windowInner)) >>
                                  ELSE << >>) \o
                    (IF hoverRuns THEN << SizesUpdate(hoveredItemId) >> ELSE << >>) \o
                    (IF recomputeRuns THEN << ReplaceUpdate(solved) >> ELSE << >>)
    /\ dirty' = {}
    /\ UNCHANGED << variant, items, isOpen, hoveredItemId, position, windowInner,
                    orbitalItems, lastEvent, events >>

\* The orbitalItems state after the queued updates are applied in order.
RECURSIVE ReduceItems(_, _)
ReduceItems(list, queue) ==
    IF queue = << >> THEN list
    ELSE LET u == Head(queue)
         IN ReduceItems(IF u.kind = "sizes" THEN ApplyHoverSizes(list, u.hovered)
                        ELSE IF u.kind = "replace" THEN u.list
                        ELSE list,
                        Tail(queue))

\* The position state after the queued updates are applied in order.
RECURSIVE ReducePosition(_, _)
ReducePosition(p, queue) ==
    IF queue = << >> THEN p
    ELSE ReducePosition(IF Head(queue).kind = "position" THEN Head(queue).pos ELSE p,
                        Tail(queue))

\* The render that follows the effects: every queued update is applied to
\* its state, and the states written become the next commit's changes.
ForceApplyUpdates ==
    /\ UNCHANGED << arcVars, gestureVars, kernelVars >>
    /\ dirty = {}
    /\ updateQueue # << >>
    /\ orbitalItems' = ReduceItems(orbitalItems, updateQueue)
    /\ position' = ReducePosition(position, updateQueue)
    /\ dirty' = (IF \E k \in 1 .. Len(updateQueue) : updateQueue[k].kind = "position"
                 THEN {"position"} ELSE {}) \cup
                (IF \E k \in 1 .. Len(updateQueue) : updateQueue[k].kind # "position"
                 THEN {"orbitalItems"} ELSE {})
    /\ updateQueue' = << >>
    /\ UNCHANGED << variant, items, isOpen, hoveredItemId, windowInner, positionRef,
                    orbitalItemsRef, lastEvent, recomputes, solveInput, events >>

ForceNext ==
    \/ ForceToggleMenu
    \/ ForceHoverStart
    \/ ForceHoverEnd
    \/ ForceDragMove
    \/ ForceDragEnd
    \/ ForceResize
    \/ ForceItemsChange
    \/ ForceRunEffects
    \/ ForceApplyUpdates

\* ------------------------------------------------------------------------
\* DraggableRadialMenu: press, drag and click on the anchor button
\* ------------------------------------------------------------------------

\* The viewport the gestures are made in, and the pointer positions visited.
GestureViewport == [width |-> 400, height |-> 120]
\* Window sizes of a resize; the narrowest is narrower than the anchor.
GestureViewports == {GestureViewport, [width |-> 300, height |-> 120],
                     [width |-> 40, height |-> 120]}
GesturePoints == {[x |-> 200, y |-> 60], [x |-> 203, y |-> 64], [x |-> 204, y |-> 64],
                  [x |-> 260, y |-> 60], [x |-> 20, y |-> 60]}

\* The pointer is over the anchor button drawn at pos.
OverButton(pt, pos) ==
    /\ pos.x <= pt.x /\ pt.x < pos.x + DEFAULT_MAIN_BUTTON_SIZE
    /\ pos.y <= pt.y /\ pt.y < pos.y + DEFAULT_MAIN_BUTTON_SIZE

DistanceSquared(a, b) == (a.x - b.x) * (a.x - b.x) + (a.y - b.y) * (a.y - b.y)

\* A threshold test on each axis separately.
ExceedsThresholdPerAxis(start, coords) ==
    \/ Abs(coords.x - start.x) > DEFAULT_DRAG_THRESHOLD
    \/ Abs(coords.y - start.y) > DEFAULT_DRAG_THRESHOLD

\* Math.sqrt(dx * dx + dy * dy) > dragThreshold
ExceedsThreshold(start, coords) ==
    DistanceSquared(coords, start) > DEFAULT_DRAG_THRESHOLD * DEFAULT_DRAG_THRESHOLD

GestureInit ==
    /\ menuItems = 0
    /\ initialOrbitRadius = 0
    /\ drmIsOpen = FALSE
    /\ actualHoveredItemId = NoItem
    /\ viewportSize = GestureViewport
    /\ centerPosition = ClampPosition(InitialPosition(viewportSize), viewportSize)
    /\ itemPositions = << >>
    /\ arcPc = "unmounted"
    /\ currentOrbitRadius = 0
    /\ iterationCount = 0
    /\ calculatedPositions = << >>
    /\ overlapDetected = FALSE
    /\ placementRadius = 0
    /\ placementArcs = << >>
    /\ pointer \in GesturePoints
    /\ isDragging = FALSE
    /\ hasMovedBeyondThreshold = FALSE
    /\ interactionStartCoords = NoCoords
    /\ dragStartOffset = [x |-> 0, y |-> 0]
    /\ isInteractingWithButton = FALSE
    /\ clickTimer = FALSE
    /\ farthestSquared = 0
    /\ lastGesture = "mount"
    /\ presses = 0
    /\ hoverTimerRef = NoTimer
    /\ overItemId = NoItem

\* Variables of the arc solver no gesture handler writes.
gestureFrame == << menuItems, initialOrbitRadius, viewportSize, itemPositions, arcPc,
                   currentOrbitRadius, iterationCount, calculatedPositions,
                   overlapDetected, placementRadius, placementArcs >>

\* A mouseup over the button is followed at once by the button's click.
ClickPending == lastGesture = "releaseOnButton"

\* The pointer moves with no button pressed: no listener is attached.
GesturePointerMove ==
    /\ UNCHANGED << forceVars, kernelVars, gestureFrame, hoverTimerRef, overItemId >>
    /\ lastGesture # "unmounted"
    /\ ~isDragging
    /\ ~ClickPending
    /\ \E pt \in GesturePoints :
          /\ pt # pointer
          /\ pointer' = pt
    /\ lastGesture' = "pointerMove"
    /\ UNCHANGED << drmIsOpen, actualHoveredItemId, centerPosition, isDragging,
                    hasMovedBeyondThreshold, interactionStartCoords, dragStartOffset,
                    isInteractingWithButton, clickTimer, farthestSquared, presses >>

\* handleInteractionStart: mousedown on the button.
GesturePress ==
    /\ UNCHANGED << forceVars, kernelVars, gestureFrame, hoverTimerRef, overItemId >>
    /\ lastGesture # "unmounted"
    /\ ~isDragging
    /\ ~ClickPending
    /\ OverButton(pointer, centerPosition)
    /\ presses < MaxPresses
    /\ presses' = presses + 1
    /\ dragStartOffset' = [x |-> pointer.x - centerPosition.x,
                           y |-> pointer.y - centerPosition.y]
    /\ interactionStartCoords' = pointer
    /\ hasMovedBeyondThreshold' = FALSE
    /\ isDragging' = TRUE
    /\ farthestSquared' = 0
    /\ lastGesture' = "press"
    /\ UNCHANGED << drmIsOpen, actualHoveredItemId, centerPosition, pointer,
                    isInteractingWithButton, clickTimer >>

\* handleInteractionMove: mousemove while the button is held.
GestureDragMove ==
    /\ UNCHANGED << forceVars, kernelVars, gestureFrame, hoverTimerRef, overItemId >>
    /\ isDragging
    /\ \E coords \in GesturePoints :
          /\ coords # pointer
          /\ pointer' = coords
          /\ hasMovedBeyondThreshold' =
                IF interactionStartCoords # NoCoords /\ ~hasMovedBeyondThreshold
                THEN ExceedsThreshold(interactionStartCoords, coords)
                ELSE hasMovedBeyondThreshold
          /\ centerPosition' = ClampPosition([x |-> coords.x - dragStartOffset.x,
                                              y |-> coords.y - dragStartOffset.y],
                                             viewportSize)
          /\ farthestSquared' = Max(farthestSquared,
                                    DistanceSquared(coords, interactionStartCoords))
    /\ lastGesture' = "dragMove"
    /\ UNCHANGED << drmIsOpen, actualHoveredItemId, isDragging, interactionStartCoords,
                    dragStartOffset, isInteractingWithButton, clickTimer, presses >>

\* handleInteractionEnd: mouseup anywhere in the window.
GestureRelease ==
    /\ UNCHANGED << forceVars, kernelVars, gestureFrame, hoverTimerRef, overItemId >>
    /\ isDragging
    /\ isDragging' = FALSE
    /\ lastGesture' = IF OverButton(pointer, centerPosition) THEN "releaseOnButton"
                                                             ELSE "release"
    /\ UNCHANGED << drmIsOpen, actualHoveredItemId, centerPosition, pointer,
                    hasMovedBeyondThreshold, interactionStartCoords, dragStartOffset,
                    isInteractingWithButton, clickTimer, farthestSquared, presses >>

\* Clears the committed hover and leaves the pending hover timer running.
clearHoverStateOnly ==
    /\ actualHoveredItemId' = NoItem
    /\ UNCHANGED hoverTimerRef

\* clearHoverStateAndTimers: setActualHoveredItemId(null), clearTimeout.
clearHoverStateAndTimers ==
    /\ actualHoveredItemId' = NoItem
    /\ hoverTimerRef' = NoTimer

\* toggleMenu with no click guard: every click without a drag toggles.
ToggleMenuHandlerUnguarded ==
    IF ~hasMovedBeyondThreshold
    THEN /\ drmIsOpen' = ~drmIsOpen
         /\ IF drmIsOpen THEN clearHoverStateAndTimers
                         ELSE UNCHANGED << actualHoveredItemId, hoverTimerRef >>
         /\ isInteractingWithButton' = TRUE
         /\ clickTimer' = TRUE
    ELSE UNCHANGED << drmIsOpen, actualHoveredItemId, hoverTimerRef,
                      isInteractingWithButton, clickTimer >>

\* toggleMenu, as the button's onClick runs it.
ToggleMenuHandler ==
    IF ~hasMovedBeyondThreshold /\ ~isInteractingWithButton
    THEN /\ drmIsOpen' = ~drmIsOpen
         /\ IF drmIsOpen THEN clearHoverStateAndTimers
                         ELSE UNCHANGED << actualHoveredItemId, hoverTimerRef >>
         /\ isInteractingWithButton' = TRUE
         /\ clickTimer' = TRUE
    ELSE UNCHANGED << drmIsOpen, actualHoveredItemId, hoverTimerRef,
                      isInteractingWithButton, clickTimer >>

\* The click that follows a press and release over the button.
GestureClick ==
    /\ UNCHANGED << forceVars, kernelVars, gestureFrame, overItemId >>
    /\ ClickPending
    /\ ToggleMenuHandler
    /\ lastGesture' = "click"
    /\ UNCHANGED << centerPosition, pointer, isDragging, hasMovedBeyondThreshold,
                    interactionStartCoords, dragStartOffset, farthestSquared, presses >>

\* A click from the keyboard (Enter or Space on the focused button): no press.
GestureKeyboardClick ==
    /\ UNCHANGED << forceVars, kernelVars, gestureFrame, overItemId >>
    /\ lastGesture # "unmounted"
    /\ ~isDragging
    /\ ~ClickPending
    /\ ToggleMenuHandler
    /\ lastGesture' = "keyboardClick"
    /\ UNCHANGED << centerPosition, pointer, isDragging, hasMovedBeyondThreshold,
                    interactionStartCoords, dragStartOffset, farthestSquared, presses >>

\* The timeout set by toggleMenu fires: setIsInteractingWithButton(false).
GestureClickTimeout ==
    /\ UNCHANGED << forceVars, kernelVars, gestureFrame, hoverTimerRef, overItemId >>
    /\ clickTimer
    /\ clickTimer' = FALSE
    /\ isInteractingWithButton' = FALSE
    /\ UNCHANGED << drmIsOpen, actualHoveredItemId, centerPosition, pointer, isDragging,
                    hasMovedBeyondThreshold, interactionStartCoords, dragStartOffset,
                    farthestSquared, lastGesture, presses >>

\* handleResize: the window's resize event clamps the stored position.
GestureResize ==
    /\ UNCHANGED << forceVars, kernelVars, hoverTimerRef, overItemId >>
    /\ lastGesture # "unmounted"
    /\ ~ClickPending
    /\ \E vp \in GestureViewports :
          /\ vp # viewportSize
          /\ viewportSize' = vp
          /\ centerPosition' = ClampPosition(centerPosition, vp)
    /\ lastGesture' = "resize"
    /\ UNCHANGED << menuItems, initialOrbitRadius, itemPositions, arcPc >>
    /\ UNCHANGED loopLocals
    /\ UNCHANGED << drmIsOpen, actualHoveredItemId, pointer, isDragging,
                    hasMovedBeyondThreshold, interactionStartCoords, dragStartOffset,
                    isInteractingWithButton, clickTimer, farthestSquared, presses >>

GestureNext ==
    \/ GestureResize
    \/ GesturePointerMove
    \/ GesturePress
    \/ GestureDragMove
    \/ GestureRelease
    \/ GestureClick
    \/ GestureKeyboardClick
    \/ GestureClickTimeout

\* ------------------------------------------------------------------------
\* The menus and the geometry kernel are separate programs: each
\* specification runs one of them and holds the others unmounted.
\* ------------------------------------------------------------------------

ArcParked ==
    /\ menuItems = 0
    /\ initialOrbitRadius = 0
    /\ drmIsOpen = FALSE
    /\ actualHoveredItemId = NoItem
    /\ viewportSize = [width |-> 0, height |-> 0]
    /\ centerPosition = [x |-> 0, y |-> 0]
    /\ itemPositions = << >>
    /\ arcPc = "unmounted"
    /\ currentOrbitRadius = 0
    /\ iterationCount = 0
    /\ calculatedPositions = << >>
    /\ overlapDetected = FALSE
    /\ placementRadius = 0
    /\ placementArcs = << >>

ForceParked ==
    /\ variant = "ref"
    /\ items = 0
    /\ isOpen = FALSE
    /\ hoveredItemId = NoItem
    /\ windowInner = [width |-> 0, height |-> 0]
    /\ position = [x |-> 0, y |-> 0]
    /\ orbitalItems = << >>
    /\ positionRef = [x |-> 0, y |-> 0]
    /\ orbitalItemsRef = << >>
    /\ dirty = {}
    /\ updateQueue = << >>
    /\ lastEvent = "mount"
    /\ recomputes = 0
    /\ solveInput = << >>
    /\ events = MaxEvents

GestureParked ==
    /\ pointer = [x |-> 0, y |-> 0]
    /\ isDragging = FALSE
    /\ hasMovedBeyondThreshold = FALSE
    /\ interactionStartCoords = NoCoords
    /\ dragStartOffset = [x |-> 0, y |-> 0]
    /\ isInteractingWithButton = FALSE
    /\ clickTimer = FALSE
    /\ farthestSquared = 0
    /\ lastGesture = "unmounted"
    /\ presses = 0
    /\ hoverTimerRef = NoTimer
    /\ overItemId = NoItem

KernelParked ==
    /\ kernelCall = [op |-> "none"]
    /\ kernelResult = ZeroVector

InitArc == ArcInit /\ ForceParked /\ GestureParked /\ KernelParked
SpecArc == InitArc /\ [][ArcNext]_vars

InitForce == ForceInit /\ ArcParked /\ GestureParked /\ KernelParked
SpecForce == InitForce /\ [][ForceNext]_vars

\* Both solvers, each with the other component unmounted.
InitSolvers == InitArc \/ InitForce
NextSolvers == ArcNext \/ ForceNext
SpecSolvers == InitSolvers /\ [][NextSolvers]_vars

InitGesture == GestureInit /\ ForceParked /\ KernelParked
SpecGesture == InitGesture /\ [][GestureNext]_vars

\* The timer started by toggleMenu is a setTimeout of CLICK_TIMEOUT_DURATION:
\* the event loop runs its callback once the delay has elapsed.
SpecGestureFair == SpecGesture /\ WF_vars(GestureClickTimeout)

\* ------------------------------------------------------------------------
\* DraggableRadialMenu: hover intent.  One timer slot (hoverTimerRef) holds
\* either the pending enter timer or the pending leave timer; a timer that
\* is pending may fire at any later moment, that is once its delay elapsed.
\* ------------------------------------------------------------------------

EnterTimer(itemId) == [kind |-> "enter", itemId |-> itemId]
LeaveTimer(itemId) == [kind |-> "leave", itemId |-> itemId]

\* A mouse-enter that commits the hover at once, with no intent delay.
handleItemMouseEnterAtOnce(itemId) ==
    /\ actualHoveredItemId' = itemId
    /\ hoverTimerRef' = NoTimer

\* handleItemMouseEnter: clear the pending timer, start the enter timer.
handleItemMouseEnter(itemId) ==
    /\ hoverTimerRef' = EnterTimer(itemId)
    /\ UNCHANGED actualHoveredItemId

\* handleItemMouseLeave: clear the pending timer, start the leave timer.
handleItemMouseLeave(itemId) ==
    /\ hoverTimerRef' = LeaveTimer(itemId)
    /\ UNCHANGED actualHoveredItemId

\* The menu is mounted with items to hover; the anchor is not being dragged.
HoverInit ==
    /\ menuItems \in 2 .. MaxItems
    /\ initialOrbitRadius = 100
    /\ drmIsOpen = FALSE
    /\ actualHoveredItemId = NoItem
    /\ viewportSize = GestureViewport
    /\ centerPosition = ClampPosition(InitialPosition(viewportSize), viewportSize)
    /\ itemPositions = << >>
    /\ arcPc = "unmounted"
    /\ currentOrbitRadius = 0
    /\ iterationCount = 0
    /\ calculatedPositions = << >>
    /\ overlapDetected = FALSE
    /\ placementRadius = 0
    /\ placementArcs = << >>
    /\ pointer = [x |-> 0, y |-> 0]
    /\ isDragging = FALSE
    /\ hasMovedBeyondThreshold = FALSE
    /\ interactionStartCoords = NoCoords
    /\ dragStartOffset = [x |-> 0, y |-> 0]
    /\ isInteractingWithButton = FALSE
    /\ clickTimer = FALSE
    /\ farthestSquared = 0
    /\ lastGesture = "mount"
    /\ presses = 0
    /\ hoverTimerRef = NoTimer
    /\ overItemId = NoItem

\* Variables of the drag gesture no hover handler writes.
hoverFrame == << centerPosition, pointer, isDragging, hasMovedBeyondThreshold,
                 interactionStartCoords, dragStartOffset, farthestSquared, presses >>

\* onMouseEnter of an item's hitbox: isOpen && handleItemMouseEnter(item.id).
HoverItemMouseEnter ==
    /\ UNCHANGED << forceVars, kernelVars, gestureFrame, hoverFrame >>
    /\ overItemId = NoItem
    /\ \E itemId \in 1 .. menuItems :
          /\ overItemId' = itemId
          /\ IF drmIsOpen THEN handleItemMouseEnter(itemId)
                          ELSE UNCHANGED << hoverTimerRef, actualHoveredItemId >>
    /\ lastGesture' = "itemEnter"
    /\ UNCHANGED << drmIsOpen, isInteractingWithButton, clickTimer >>

\* onMouseLeave of an item's hitbox: isOpen && handleItemMouseLeave(item.id).
HoverItemMouseLeave ==
    /\ UNCHANGED << forceVars, kernelVars, gestureFrame, hoverFrame >>
    /\ overItemId # NoItem
    /\ overItemId' = NoItem
    /\ IF drmIsOpen THEN handleItemMouseLeave(overItemId)
                    ELSE UNCHANGED << hoverTimerRef, actualHoveredItemId >>
    /\ lastGesture' = "itemLeave"
    /\ UNCHANGED << drmIsOpen, isInteractingWithButton, clickTimer >>

\* The pending hover timer fires: the enter timer commits its item, the
\* leave timer clears the committed id if it is still the item left.
HoverTimerFires ==
    /\ UNCHANGED << forceVars, kernelVars, gestureFrame, hoverFrame >>
    /\ hoverTimerRef # NoTimer
    /\ \E next \in {IF hoverTimerRef.kind = "enter" THEN hoverTimerRef.itemId
                    ELSE IF actualHoveredItemId = hoverTimerRef.itemId THEN NoItem
                    ELSE actualHoveredItemId} :
          /\ actualHoveredItemId' = next
          /\ lastGesture' = IF next # NoItem /\ actualHoveredItemId # NoItem
                               /\ next # actualHoveredItemId
                            THEN "hoverHandOver"
                            ELSE "hoverTimer"
    /\ hoverTimerRef' = NoTimer
    /\ UNCHANGED << drmIsOpen, overItemId, isInteractingWithButton, clickTimer >>

\* onClick of an item: setIsOpen(false); clearHoverStateAndTimers().  The
\* hitboxes take no pointer events while the menu is closed.
HoverItemClick ==
    /\ UNCHANGED << forceVars, kernelVars, gestureFrame, hoverFrame >>
    /\ drmIsOpen
    /\ overItemId # NoItem
    /\ drmIsOpen' = FALSE
    /\ clearHoverStateAndTimers
    /\ lastGesture' = "itemClick"
    /\ UNCHANGED << overItemId, isInteractingWithButton, clickTimer >>

HoverNext ==
    \/ HoverItemMouseEnter
    \/ HoverItemMouseLeave
    \/ HoverTimerFires
    \/ HoverItemClick
    \/ GestureKeyboardClick
    \/ GestureClickTimeout

InitHover == HoverInit /\ ForceParked /\ KernelParked
SpecHover == InitHover /\ [][HoverNext]_vars

\* ------------------------------------------------------------------------
\* lib/geometry.ts called on its own: one call per step, arguments drawn
\* from small sets (lengths in 1/FP pixel)
\* ------------------------------------------------------------------------

\* Circle centres and radii: apart, touching, overlapping and concentric
\* pairs all occur.
KernelCoords == {-600, 0, 300, 400, 660}
KernelRadii == {280, 330, 370}
KernelCircles ==
    {[x |-> cx, y |-> cy, radius |-> r] :
        cx \in KernelCoords, cy \in KernelCoords, r \in KernelRadii}

\* Item centres, radii and windows for the edge force: a circle inside the
\* padded window, across one edge, and across both edges of an axis.
KernelItemCoords == {100, 400, 600, 5000, 9900}
KernelItemRadii == {280, 340}
KernelWindows == {[width |-> 1000, height |-> 800], [width |-> 80, height |-> 800],
                  [width |-> 1000, height |-> 90]}

KernelRepulsionCall ==
    /\ UNCHANGED << arcVars, forceVars, gestureVars >>
    /\ kernelCall.op = "none"
    /\ \E circleA \in KernelCircles, circleB \in KernelCircles :
          /\ kernelCall' = [op |-> "repulsion", circleA |-> circleA, circleB |-> circleB]
          /\ kernelResult' = calculateRepulsionForce(circleA, circleB)

KernelEdgeCall ==
    /\ UNCHANGED << arcVars, forceVars, gestureVars >>
    /\ kernelCall.op = "none"
    /\ \E itemX \in KernelItemCoords, itemY \in KernelItemCoords,
          itemRadius \in KernelItemRadii, win \in KernelWindows :
          /\ kernelCall' = [op |-> "edge", itemX |-> itemX, itemY |-> itemY,
                            itemRadius |-> itemRadius,
                            screenPadding |-> SCREEN_PADDING * FP, win |-> win]
          /\ kernelResult' = calculateEdgeForce(itemX, itemY, itemRadius,
                                                SCREEN_PADDING * FP, win)

\* Lists the iteration loop of updateItemPositions holds at the start of an
\* iteration: the seeded list with the hover sizes applied, after any number
\* of iterations of up to MaxRecomputes recomputes, for an anchor near the
\* right edge or centred, in a tall and in a short window.
KernelAnchors == {[x |-> 468, y |-> 43], [x |-> 880, y |-> 43], [x |-> 468, y |-> 368]}
KernelRelaxWindows == {[width |-> 1000, height |-> 150], [width |-> 1000, height |-> 800]}

KernelRelaxCall ==
    /\ UNCHANGED << arcVars, forceVars, gestureVars >>
    /\ kernelCall.op = "none"
    /\ \E count \in 1 .. MaxItems, anchor \in KernelAnchors, win \in KernelRelaxWindows,
          done \in 0 .. MaxRecomputes * RELAXATION_ITERATIONS - 1 :
       \E hovered \in 0 .. count :
       \E list \in {Relax(ApplyHoverSizes(SeedItems(count), hovered), anchor, win, done)} :
          /\ kernelCall' = [op |-> "relax", list |-> list, currentPosition |-> anchor,
                            win |-> win]
          /\ kernelResult' = RelaxOnce(list, anchor, win)

\* The caller has taken the result; the next call can be made.
KernelReturn ==
    /\ UNCHANGED << arcVars, forceVars, gestureVars >>
    /\ kernelCall.op # "none"
    /\ kernelCall' = [op |-> "none"]
    /\ kernelResult' = ZeroVector

KernelNext ==
    \/ KernelRepulsionCall
    \/ KernelEdgeCall
    \/ KernelRelaxCall
    \/ KernelReturn

InitKernel == KernelParked /\ ArcParked /\ ForceParked /\ GestureParked
SpecKernel == InitKernel /\ [][KernelNext]_vars

\* ------------------------------------------------------------------------
\* Properties of the safe-arc angular solver
\* ------------------------------------------------------------------------

\* The effect has run to completion on the current inputs and solved a layout.
ArcSolved ==
    /\ arcPc = "idle"
    /\ drmIsOpen
    /\ menuItems > 0
    /\ initialOrbitRadius > 0

\* Item k is drawn at the k-th returned position with its actual size.
DrawnOverlap(i, j) == PairOverlaps(itemPositions, i, j, actualHoveredItemId)

\* C1: the radius loop ends within its iteration cap, and a solved layout
\* holds exactly one position per supplied item, none dropped: the returned
\* list is the list computed in item order, rearranged.
C1_CompletePlacement ==
    /\ iterationCount <= MAX_ITERATIONS_FOR_RADIUS_ADJUSTMENT
    /\ ArcSolved =>
          /\ iterationCount >= 1
          /\ Len(itemPositions) = menuItems
          /\ Len(calculatedPositions) = menuItems
          /\ \A k \in 1 .. menuItems :
                 \E m \in 1 .. menuItems : itemPositions[m] = calculatedPositions[k]

\* A layout solved after the radius was escalated up to the ceiling.
C1_Witness ==
    /\ ArcSolved
    /\ menuItems = MaxItems
    /\ iterationCount > 1
    /\ placementRadius = maxOrbitRadius
    /\ Len(itemPositions) = menuItems

\* C2: a placement with detected overlap is accepted only if the radius it
\* was computed at has reached initialRadius * MAX_ORBIT_RADIUS_FACTOR.
C2_OverlapOnlyAtCeiling ==
    (ArcSolved /\ overlapDetected) => placementRadius >= maxOrbitRadius

\* C3: in a layout solved below the radius ceiling, no two drawn items
\* overlap (actual sizes, item k at the k-th returned position).
C3_NoDrawnOverlapBelowCeiling ==
    (ArcSolved /\ placementRadius < maxOrbitRadius) =>
        \A i \in 1 .. Len(itemPositions) : \A j \in i + 1 .. Len(itemPositions) :
            ~DrawnOverlap(i, j)

\* C4: when a safe arc exists at the accepted radius, every returned item
\* sits at an angle that passes the safety test.
C4_ItemsAtSafeAngles ==
    (ArcSolved /\ placementArcs # << >>) =>
        \A k \in 1 .. Len(itemPositions) :
            isSafeAngle(itemPositions[k].angle, placementRadius,
                        centerPosition, viewportSize)

\* ------------------------------------------------------------------------
\* Properties of the force-relaxation controller
\* ------------------------------------------------------------------------

\* Every item of the list has the size the current hoveredItemId calls for.
SizesFollowHover(list) ==
    \A k \in 1 .. Len(list) :
        list[k].size = IF list[k].id = hoveredItemId
                       THEN ITEM_BASE_SIZE * ITEM_HOVER_SCALE
                       ELSE ITEM_BASE_SIZE * 10

\* C5: after a hover change with the menu open has been fully processed,
\* the recompute it triggered read a list with the hovered item already at
\* ITEM_BASE_SIZE * ITEM_HOVER_SCALE and all others at ITEM_BASE_SIZE, and
\* the committed list carries these sizes.
C5_HoverSizeBeforeRecompute ==
    (Quiescent /\ isOpen /\ lastEvent = "hover" /\ recomputes > 0) =>
        /\ SizesFollowHover(solveInput)
        /\ SizesFollowHover(orbitalItems)

\* C6: in every quiescent state an item's scale is ITEM_HOVER_SCALE if its
\* id is the current hoveredItemId and 1 otherwise.
C6_ScaleFollowsHover ==
    Quiescent =>
        \A k \in 1 .. Len(orbitalItems) :
            orbitalItems[k].scale =
                IF orbitalItems[k].id = hoveredItemId THEN ITEM_HOVER_SCALE ELSE 10

\* Every item of the list has size = ITEM_BASE_SIZE * scale.
SizeIsBaseTimesScale(list) ==
    \A k \in 1 .. Len(list) : list[k].size = ITEM_BASE_SIZE * list[k].scale

\* C7: in every reachable state every item satisfies size = ITEM_BASE_SIZE *
\* scale: in the committed list, in the list the ref holds and in every
\* list a recompute has queued.
C7_SizeIsBaseTimesScale ==
    /\ SizeIsBaseTimesScale(orbitalItems)
    /\ SizeIsBaseTimesScale(orbitalItemsRef)
    /\ \A u \in 1 .. Len(updateQueue) : SizeIsBaseTimesScale(updateQueue[u].list)

\* A recompute has run on a list holding a hovered, scaled-up item and its
\* result is committed.
C7_Witness ==
    /\ Quiescent
    /\ isOpen
    /\ recomputes > 0
    /\ \E k \in 1 .. Len(orbitalItems) :
          /\ orbitalItems[k].scale = ITEM_HOVER_SCALE
          /\ orbitalItems[k].size = ITEM_BASE_SIZE * ITEM_HOVER_SCALE
    /\ \E k \in 1 .. Len(orbitalItems) : orbitalItems[k].scale = 10

\* C8: the controller's list always holds one item state per supplied item,
\* in order, with baseAngle = index / count of a full turn.
C8_ListMatchesItemSet ==
    Quiescent =>
        /\ Len(orbitalItems) = items
        /\ \A k \in 1 .. Len(orbitalItems) :
              /\ orbitalItems[k].id = k
              /\ orbitalItems[k].baseAngle = ((k - 1) * FullCircle) \div items

\* C9: while the menu is open, a drag-move event runs no recompute.
C9_DragMoveNoRecompute ==
    (isOpen /\ lastEvent = "dragMove") => recomputes = 0

\* C10: once an open/close transition, a hover change, a drag completion, a
\* resize or a change of the item count has been fully processed, exactly
\* one recompute has run for it.
C10_ExactlyOneRecompute ==
    (Quiescent /\ lastEvent \in {"toggle", "hover", "dragEnd", "resize", "itemsCount"}) =>
        recomputes = 1

\* ------------------------------------------------------------------------
\* Properties of the press / drag / click gestures
\* ------------------------------------------------------------------------

\* C11: isOpen changes only if the pointer never got farther than the drag
\* threshold from the start of the latest press; the threshold flag, once
\* set, is cleared only by the start of the next press; so the click that
\* ends a drag leaves isOpen unchanged.
C11_ClickTogglesOnlyWithoutDrag ==
    [][/\ drmIsOpen' # drmIsOpen =>
             farthestSquared <= DEFAULT_DRAG_THRESHOLD * DEFAULT_DRAG_THRESHOLD
       /\ (hasMovedBeyondThreshold /\ ~hasMovedBeyondThreshold') => lastGesture' = "press"
       /\ (lastGesture' = "click" /\
           farthestSquared > DEFAULT_DRAG_THRESHOLD * DEFAULT_DRAG_THRESHOLD) =>
             drmIsOpen' = drmIsOpen]_vars

\* The click that ends a drag beyond the threshold has been delivered to an
\* open menu, which stayed open.
C11_Witness ==
    /\ lastGesture = "click"
    /\ farthestSquared > DEFAULT_DRAG_THRESHOLD * DEFAULT_DRAG_THRESHOLD
    /\ hasMovedBeyondThreshold
    /\ drmIsOpen

\* C12: the arc solver returns the empty list, in one step that never enters
\* the scan/solve loop, whenever the menu is closed, the item set is empty or
\* the initial orbit radius is zero or negative; in every other case the list
\* it returns is non-empty.
C12_EmptyExactlyWhenShortCircuited ==
    /\ [](arcPc = "idle" =>
            (itemPositions = << >> <=>
                (~drmIsOpen \/ menuItems = 0 \/ initialOrbitRadius <= 0)))
    /\ [][(arcPc = "effect" /\ arcPc' # "effect" /\
           (~drmIsOpen \/ menuItems = 0 \/ initialOrbitRadius <= 0)) =>
             /\ arcPc' = "idle"
             /\ itemPositions' = << >>
             /\ iterationCount' = iterationCount
             /\ calculatedPositions' = calculatedPositions]_vars

\* An open menu with items and a negative orbit radius has been solved to the
\* empty list.
C12_Witness ==
    /\ arcPc = "idle"
    /\ drmIsOpen
    /\ menuItems > 0
    /\ initialOrbitRadius < 0
    /\ itemPositions = << >>

\* The loop locals belong to a run on the present inputs.
ArcRunOnPresentInputs ==
    /\ arcPc \in {"loop", "idle"}
    /\ iterationCount >= 1
    /\ drmIsOpen /\ menuItems > 0 /\ initialOrbitRadius > 0

\* C13: in an iteration whose total safe arc length is below
\* ANGLE_EPSILON * itemCount, item i (counted from 0) is placed at angle
\* i * 2*pi / itemCount on the radius of that iteration, for every i, whether
\* or not that angle is safe.
C13_UniformFallback ==
    (ArcRunOnPresentInputs /\
     SumLength(placementArcs) * AngleEpsDen < AngleEpsNum * menuItems) =>
        /\ Len(calculatedPositions) = menuItems
        /\ \A k \in 1 .. menuItems :
              LET angle == ((k - 1) * FullCircle) \div menuItems
              IN /\ calculatedPositions[k].angle = angle
                 /\ calculatedPositions[k].x = RDiv(placementRadius * Cos(angle) * FP, TrigScale)
                 /\ calculatedPositions[k].y = RDiv(placementRadius * Sin(angle) * FP, TrigScale)

\* The fallback has placed three items, one of them at an unsafe angle.
C13_Witness ==
    /\ ArcRunOnPresentInputs
    /\ menuItems = 3
    /\ SumLength(placementArcs) * AngleEpsDen < AngleEpsNum * menuItems
    /\ Len(calculatedPositions) = 3
    /\ calculatedPositions[2].angle = FullCircle \div 3
    /\ ~isSafeAngle(calculatedPositions[2].angle, placementRadius, centerPosition,
                    viewportSize)

\* C14: both solvers are deterministic.  An arc-solver run starts from the
\* initial radius and pass count 0 whatever an earlier run left behind, every
\* pass is the function of the hook's inputs, the current radius and the pass
\* count, and (replayed in full for initial radii up to ReplayRadius) the
\* list the run stores is SolveArc of the inputs.  The list a force-solver
\* run queues is the function of the previous list, the anchor and the
\* viewport it read, whatever the variant, the hover state or the number of
\* earlier recomputes.
C14_SolversDeterministic ==
    /\ [][(arcPc = "effect" /\ arcPc' = "loop") =>
             (currentOrbitRadius' = initialOrbitRadius /\ iterationCount' = 0)]_vars
    /\ [][arcPc = "loop" =>
             \A positions \in {PlaceItems(menuItems, currentOrbitRadius,
                                SafeArcsAt(currentOrbitRadius, centerPosition,
                                           viewportSize))} :
                LET stop == \/ ~DetectOverlap(positions, menuItems, actualHoveredItemId)
                            \/ currentOrbitRadius >= initialOrbitRadius * MAX_ORBIT_RADIUS_FACTOR
                IN /\ calculatedPositions' = positions
                   /\ currentOrbitRadius' =
                         (IF stop THEN currentOrbitRadius
                          ELSE Min(currentOrbitRadius + ORBIT_RADIUS_INCREMENT_PIXELS,
                                   initialOrbitRadius * MAX_ORBIT_RADIUS_FACTOR))
                   /\ (arcPc' = "idle") =
                         (stop \/ iterationCount + 1 >= MAX_ITERATIONS_FOR_RADIUS_ADJUSTMENT)
                   /\ arcPc' = "idle" =>
                         itemPositions' = SortPositionsByAngle(positions)]_vars
    /\ [][(arcPc = "loop" /\ arcPc' = "idle" /\ initialOrbitRadius <= ReplayRadius) =>
             itemPositions' = SolveArc(drmIsOpen, menuItems, initialOrbitRadius,
                                       centerPosition, viewportSize,
                                       actualHoveredItemId)]_vars
    /\ [](\A k \in 1 .. Len(updateQueue) :
             updateQueue[k].kind = "replace" =>
                updateQueue[k].list =
                    Relax(solveInput,
                          IF variant = "ref" THEN positionRef ELSE position,
                          windowInner, RELAXATION_ITERATIONS))

\* A later arc run (the hover was committed after the run that opened the
\* menu) has escalated the radius and stored its list.
C14_Witness ==
    /\ arcPc = "idle"
    /\ drmIsOpen
    /\ actualHoveredItemId # NoItem
    /\ initialOrbitRadius > 0
    /\ initialOrbitRadius <= ReplayRadius
    /\ iterationCount >= 2
    /\ placementRadius > initialOrbitRadius
    /\ Len(itemPositions) = menuItems

\* C15: the list the arc solver returns has non-decreasing angles by index,
\* every angle being in [0, 2*pi).
C15_AnglesNonDecreasing ==
    /\ \A k \in 1 .. Len(itemPositions) :
          itemPositions[k].angle >= 0 /\ itemPositions[k].angle < FullCircle
    /\ \A k \in 1 .. Len(itemPositions) - 1 :
          itemPositions[k].angle <= itemPositions[k + 1].angle

\* A returned list of three positions whose order differs from the order in
\* which the items were placed.
C15_Witness ==
    /\ arcPc = "idle"
    /\ Len(itemPositions) = 3
    /\ Len(calculatedPositions) = 3
    /\ itemPositions # calculatedPositions
    /\ itemPositions[1].angle < itemPositions[2].angle

\* C18: the k-th element of the list the arc solver returns is the position
\* that was computed and overlap-checked for the k-th item, so the list is in
\* item order.
C18_ListKeepsItemOrder ==
    (ArcRunOnPresentInputs /\ arcPc = "idle") =>
        /\ Len(itemPositions) = menuItems
        /\ \A k \in 1 .. menuItems : itemPositions[k] = calculatedPositions[k]

\* C17: across the passes of one arc-solver run the orbit radius never
\* decreases, stays within [initialRadius, initialRadius *
\* MAX_ORBIT_RADIUS_FACTOR], and every escalation raises it by exactly
\* ORBIT_RADIUS_INCREMENT_PIXELS, except that a step that would pass the
\* ceiling ends on the ceiling.
C17_RadiusEscalation ==
    /\ []((arcPc = "loop" \/ (arcPc = "idle" /\ ArcRunOnPresentInputs)) =>
            /\ currentOrbitRadius >= initialOrbitRadius
            /\ currentOrbitRadius <= initialOrbitRadius * MAX_ORBIT_RADIUS_FACTOR)
    /\ [][arcPc = "loop" =>
            /\ currentOrbitRadius' >= currentOrbitRadius
            /\ currentOrbitRadius' # currentOrbitRadius =>
                  \/ currentOrbitRadius' =
                        currentOrbitRadius + ORBIT_RADIUS_INCREMENT_PIXELS
                  \/ /\ currentOrbitRadius' =
                           initialOrbitRadius * MAX_ORBIT_RADIUS_FACTOR
                     /\ currentOrbitRadius' <
                           currentOrbitRadius + ORBIT_RADIUS_INCREMENT_PIXELS]_vars

\* A run has escalated to a ceiling that is not a whole number of increments
\* above the initial radius.
C17_Witness ==
    /\ arcPc \in {"loop", "idle"}
    /\ iterationCount >= 2
    /\ initialOrbitRadius > 0
    /\ (initialOrbitRadius * (MAX_ORBIT_RADIUS_FACTOR - 1))
           % ORBIT_RADIUS_INCREMENT_PIXELS # 0
    /\ currentOrbitRadius = initialOrbitRadius * MAX_ORBIT_RADIUS_FACTOR

\* The padded viewport edges a circle at (x, y) of the given radius violates
\* none of, for the anchor position and window a recompute reads.
WithinPaddedViewport(x, y, radius, anchor, win) ==
    LET absX == anchor.x * FP + (CENTER_BUTTON_SIZE * FP) \div 2 + x
        absY == anchor.y * FP + (CENTER_BUTTON_SIZE * FP) \div 2 + y
    IN /\ absX - radius >= SCREEN_PADDING * FP
       /\ absX + radius <= win.width * FP - SCREEN_PADDING * FP
       /\ absY - radius >= SCREEN_PADDING * FP
       /\ absY + radius <= win.height * FP - SCREEN_PADDING * FP

\* The single item of the list a recompute read is at its ideal orbit
\* position, and that position violates no padded edge.
SingleItemAtIdeal ==
    /\ Len(solveInput) = 1
    /\ solveInput[1].x = RDiv(ORBIT_RADIUS_REFERENCE * Cos(solveInput[1].baseAngle) * FP,
                              TrigScale)
    /\ solveInput[1].y = RDiv(ORBIT_RADIUS_REFERENCE * Sin(solveInput[1].baseAngle) * FP,
                              TrigScale)
    /\ WithinPaddedViewport(solveInput[1].x, solveInput[1].y, solveInput[1].size \div 2,
                            IF variant = "ref" THEN positionRef ELSE position,
                            windowInner)

\* C16: a recompute that reads a single item at its ideal orbit position,
\* where that position violates no padded viewport edge, leaves the item
\* exactly at that position, however many recomputes came before.
C16_IdealIsFixedPoint ==
    \A k \in 1 .. Len(updateQueue) :
        (updateQueue[k].kind = "replace" /\ SingleItemAtIdeal) =>
            /\ Len(updateQueue[k].list) = 1
            /\ updateQueue[k].list[1].x = solveInput[1].x
            /\ updateQueue[k].list[1].y = solveInput[1].y
            /\ updateQueue[k].list[1].targetX = solveInput[1].x
            /\ updateQueue[k].list[1].targetY = solveInput[1].y

\* A hovered single item at its ideal position has been recomputed again
\* (the menu was opened before the hover) and queued unmoved.
C16_Witness ==
    /\ isOpen
    /\ hoveredItemId = 1
    /\ events >= 2
    /\ SingleItemAtIdeal
    /\ solveInput[1].size = ITEM_BASE_SIZE * ITEM_HOVER_SCALE
    /\ \E k \in 1 .. Len(updateQueue) :
          /\ updateQueue[k].kind = "replace"
          /\ updateQueue[k].list[1].x = ORBIT_RADIUS_REFERENCE * FP

\* A recompute read a single item whose ideal position crosses a padded edge
\* and moved it.
C16_EdgeCaseReached ==
    /\ Len(solveInput) = 1
    /\ ~SingleItemAtIdeal
    /\ \E k \in 1 .. Len(updateQueue) :
          /\ updateQueue[k].kind = "replace"
          /\ updateQueue[k].list[1].x # solveInput[1].x

\* max(0, a), the restoring term of one edge before the 0.5 factor
Positive(a) == IF a > 0 THEN a ELSE 0

\* C19: on each axis edgeForce returns the sum of the restoring terms of the
\* two padded edges of that axis, x = 0.5 * max(0, padding - (itemX - r)) -
\* 0.5 * max(0, (itemX + r) - (width - padding)) and likewise for y, also
\* when the circle crosses both opposite edges of an axis at once.
C19_EdgeForceSumsBothEdges ==
    kernelCall.op = "edge" =>
        LET c == kernelCall
            innerWidth == c.win.width * FP
            innerHeight == c.win.height * FP
        IN /\ 2 * kernelResult.x =
                 Positive(c.screenPadding - (c.itemX - c.itemRadius)) -
                 Positive((c.itemX + c.itemRadius) - (innerWidth - c.screenPadding))
           /\ 2 * kernelResult.y =
                 Positive(c.screenPadding - (c.itemY - c.itemRadius)) -
                 Positive((c.itemY + c.itemRadius) - (innerHeight - c.screenPadding))

\* C19 holds for every call in which no axis has both of its edges crossed.
C19_SumWhenOneEdgePerAxis ==
    (kernelCall.op = "edge" /\
     LET c == kernelCall
     IN /\ ~(/\ c.itemX - c.itemRadius < c.screenPadding
             /\ c.itemX + c.itemRadius > c.win.width * FP - c.screenPadding)
        /\ ~(/\ c.itemY - c.itemRadius < c.screenPadding
             /\ c.itemY + c.itemRadius > c.win.height * FP - c.screenPadding)) =>
        C19_EdgeForceSumsBothEdges

\* C20: repulsionForce(A, B) is the zero vector when the centre distance is
\* at least the sum of the radii or is exactly zero; otherwise it points
\* from B's centre to A's centre (to within the rounding of a unit of
\* length) with magnitude half the penetration depth; and repulsionForce(A,
\* B) = -repulsionForce(B, A).
C20_RepulsionForce ==
    kernelCall.op = "repulsion" =>
        LET a == kernelCall.circleA
            b == kernelCall.circleB
            dx == a.x - b.x
            dy == a.y - b.y
            distanceSquared == dx * dx + dy * dy
            sumOfRadii == a.radius + b.radius
            distance == Sqrt(distanceSquared)
            reverse == calculateRepulsionForce(b, a)
        IN /\ (distanceSquared >= sumOfRadii * sumOfRadii \/ distanceSquared = 0) =>
                 kernelResult = ZeroVector
           /\ (distanceSquared < sumOfRadii * sumOfRadii /\ distanceSquared > 0) =>
                 \* along the line of centres, from B towards A
                 /\ kernelResult.x * dx + kernelResult.y * dy >= 0
                 /\ Abs(kernelResult.x * dy - kernelResult.y * dx) <= distance
                 \* magnitude: half of (sum of radii - distance)
                 /\ Abs(2 * getMagnitude(kernelResult) - (sumOfRadii - distance)) <= 3
           /\ kernelResult.x = -reverse.x
           /\ kernelResult.y = -reverse.y

\* Two overlapping circles with distinct centres, off both axes, have been
\* pushed apart.
C20_Witness ==
    /\ kernelCall.op = "repulsion"
    /\ kernelCall.circleA.x = 300 /\ kernelCall.circleA.y = 400
    /\ kernelCall.circleB.x = 0 /\ kernelCall.circleB.y = 0
    /\ kernelCall.circleA.radius = 280 /\ kernelCall.circleB.radius = 370
    /\ kernelResult = [x |-> 45, y |-> 60]

\* The permutations of 1 .. n.
IndexPermutations(n) ==
    {p \in [1 .. n -> 1 .. n] : \A i, j \in 1 .. n : p[i] = p[j] => i = j}

Permute(list, p) == [k \in 1 .. Len(list) |-> list[p[k]]]

\* C21: within one relaxation iteration every item's force is computed from
\* the offsets all items had at the end of the previous iteration and only
\* then are the offsets updated, so the result does not depend on the order
\* of the items: permuting the list permutes the result identically.
C21_IterationOrderIndependent ==
    kernelCall.op = "relax" =>
        \A p \in IndexPermutations(Len(kernelCall.list)) :
            RelaxOnce(Permute(kernelCall.list, p), kernelCall.currentPosition,
                      kernelCall.win)
              = Permute(kernelResult, p)

\* An iteration on three items in which two items repel each other and both
\* move.
C21_Witness ==
    /\ kernelCall.op = "relax"
    /\ Len(kernelCall.list) = 3
    /\ calculateRepulsionForce(ItemCircle(kernelCall.list[2]),
                               ItemCircle(kernelCall.list[3])) # ZeroVector
    /\ kernelResult[2].y # kernelCall.list[2].y
    /\ kernelResult[3].y # kernelCall.list[3].y

\* r is the length of (x, y) to the nearest unit, clamped to
\* [0, 2 * ORBIT_RADIUS_REFERENCE].
IsClampedLength(r, x, y) ==
    LET ceiling == 2 * ORBIT_RADIUS_REFERENCE * FP
        squared == x * x + y * y
    IN /\ r >= 0 /\ r <= ceiling
       /\ IF 4 * squared >= (2 * ceiling - 1) * (2 * ceiling - 1)
          THEN r = ceiling
          ELSE /\ (2 * r - 1) * (2 * r - 1) <= 4 * squared
               /\ 4 * squared <= (2 * r + 1) * (2 * r + 1)

\* a is the polar angle of (x, y) to the nearest degree, in (-180, 180]
\* degrees; the angle of the zero offset is 0.
IsPolarAngle(a, x, y) ==
    /\ a > -(FullCircle \div 2) /\ a <= FullCircle \div 2
    /\ IF x = 0 /\ y = 0 THEN a = 0
       ELSE /\ x * Cos(a) + y * Sin(a) > 0
            \* sin(0.5 degree) * TrigScale < 88; one more unit per coordinate
            \* for the rounding of the table
            /\ Abs(x * Sin(a) - y * Cos(a)) <= 88 * (Abs(x) + Abs(y)) + Abs(x) + Abs(y)

\* C22: after every pass of the relaxation loop, and so after every
\* recompute, each item's currentRadius lies in [0, 2 *
\* ORBIT_RADIUS_REFERENCE] and is the length of its final offset clamped to
\* that interval, and its currentAngle is the polar angle of the same offset.
C22_PolarFormOfFinalOffset ==
    kernelCall.op = "relax" =>
        \A k \in 1 .. Len(kernelResult) :
            /\ IsClampedLength(kernelResult[k].currentRadius,
                               kernelResult[k].x, kernelResult[k].y)
            /\ IsPolarAngle(kernelResult[k].currentAngle,
                            kernelResult[k].x, kernelResult[k].y)

\* An item has been pushed farther than twice the reference radius from the
\* anchor and its radius is held at the ceiling.
C22_Witness ==
    /\ kernelCall.op = "relax"
    /\ \E k \in 1 .. Len(kernelResult) :
          /\ kernelResult[k].x * kernelResult[k].x + kernelResult[k].y * kernelResult[k].y
                > (2 * ORBIT_RADIUS_REFERENCE * FP + 1) * (2 * ORBIT_RADIUS_REFERENCE * FP + 1)
          /\ kernelResult[k].currentRadius = 2 * ORBIT_RADIUS_REFERENCE * FP

\* Sample i (taken cyclically) lies on the arc.
OnArc(arc, i) ==
    LET first == (arc.start \div angleStep) % resolution
    IN ((i + resolution) - first) % resolution < arc.length \div angleStep

\* C23: after the scan and the wrap merge every maximal cyclic run of
\* consecutive safe samples (sample resolution - 1 being adjacent to sample
\* 0) is represented by exactly one arc, whose length is the run's sample
\* count times the angular step; the total arc length is the number of safe
\* samples times the step, and no two arcs touch or overlap.
C23_ArcsAreMaximalSafeRuns ==
    ArcRunOnPresentInputs =>
        \A safe \in {potentialAngles(placementRadius, centerPosition, viewportSize)} :
            /\ \A k \in 1 .. Len(placementArcs) :
                  LET arc == placementArcs[k]
                      first == arc.start \div angleStep
                      count == arc.length \div angleStep
                  IN /\ arc.start = first * angleStep
                     /\ arc.length = count * angleStep
                     /\ arc.end = arc.start + arc.length
                     /\ first \in 0 .. resolution - 1
                     /\ count \in 1 .. resolution
                     /\ \A j \in 0 .. count - 1 : safe[(first + j) % resolution]
                     /\ count < resolution =>
                           /\ ~safe[(first + resolution - 1) % resolution]
                           /\ ~safe[(first + count) % resolution]
            /\ \A i \in 0 .. resolution - 1 :
                  safe[i] =>
                     Cardinality({k \in 1 .. Len(placementArcs) :
                                     OnArc(placementArcs[k], i)}) = 1
            /\ SumLength(placementArcs) =
                  Cardinality({i \in 0 .. resolution - 1 : safe[i]}) * angleStep

\* A pass whose safe samples include sample 0 and sample resolution - 1 and
\* an unsafe sample: the run across the wrap is one arc.
C23_Witness ==
    /\ ArcRunOnPresentInputs
    /\ Len(placementArcs) = 2
    /\ \E k \in 1 .. 2 : placementArcs[k].end > FullCircle
    /\ isSafeAngle(0, placementRadius, centerPosition, viewportSize)
    /\ isSafeAngle((resolution - 1) * angleStep, placementRadius, centerPosition,
                   viewportSize)

\* C24: a hovered id is committed only by the enter timer of the item the
\* pointer is still over; entering an item while a leave timer is pending
\* replaces that timer and keeps the committed id; and while an item is
\* committed and an enter timer is pending in an open menu the committed id
\* stays or becomes the entered item, never null.
C24_DirectHandOver ==
    [][ /\ (actualHoveredItemId' # actualHoveredItemId /\ actualHoveredItemId' # NoItem)
            => /\ hoverTimerRef = EnterTimer(actualHoveredItemId')
               /\ overItemId = actualHoveredItemId'
               /\ hoverTimerRef' = NoTimer
        /\ (drmIsOpen /\ hoverTimerRef.kind = "leave"
               /\ overItemId = NoItem /\ overItemId' # NoItem)
            => /\ hoverTimerRef' = EnterTimer(overItemId')
               /\ actualHoveredItemId' = actualHoveredItemId
        /\ (drmIsOpen /\ drmIsOpen' /\ actualHoveredItemId # NoItem
               /\ hoverTimerRef.kind = "enter")
            => actualHoveredItemId' \in {actualHoveredItemId, hoverTimerRef.itemId}
      ]_vars

C24_Witness ==
    /\ drmIsOpen
    /\ lastGesture = "hoverHandOver"
    /\ actualHoveredItemId # NoItem
    /\ overItemId = actualHoveredItemId
    /\ hoverTimerRef = NoTimer

\* C25: in an open menu with the pointer over no item and no hover timer
\* pending, no item is the committed hovered item.
C25_NoStuckHover ==
    (drmIsOpen /\ overItemId = NoItem /\ hoverTimerRef = NoTimer)
        => actualHoveredItemId = NoItem

\* C26: while the menu is closed no item is committed as hovered and no
\* hover timer is pending.
C26_ClosedMenuHasNoHover ==
    ~drmIsOpen => (actualHoveredItemId = NoItem /\ hoverTimerRef = NoTimer)

C26_Witness ==
    /\ ~drmIsOpen
    /\ lastGesture \in {"itemClick", "itemEnter", "itemLeave"}
    /\ clickTimer
    /\ overItemId # NoItem

\* A step in which the anchor button's onClick ran.
AnchorClickStep ==
    /\ lastGesture' \in {"click", "keyboardClick"}
    /\ ~(clickTimer /\ ~clickTimer')

\* C27: an anchor click while the click guard is set leaves isOpen as it is;
\* an anchor click with the guard clear and no drag toggles isOpen and sets
\* the guard with its timeout; the guard is set only while its timeout is
\* pending, and whenever it is set it is cleared again.
C27_ClickGuardExpires ==
    /\ [][AnchorClickStep =>
            IF isInteractingWithButton
            THEN drmIsOpen' = drmIsOpen /\ isInteractingWithButton'
            ELSE IF ~hasMovedBeyondThreshold
            THEN drmIsOpen' = ~drmIsOpen /\ isInteractingWithButton' /\ clickTimer'
            ELSE drmIsOpen' = drmIsOpen]_vars
    /\ [](isInteractingWithButton <=> clickTimer)
    /\ (isInteractingWithButton ~> ~isInteractingWithButton)

\* The menu is closed again by a mouse click: that click toggled after the
\* guard set by an earlier toggle had expired.
C27_Witness ==
    /\ lastGesture = "click"
    /\ ~drmIsOpen
    /\ isInteractingWithButton
    /\ clickTimer
    /\ presses = MaxPresses

\* The anchor's top-left corner lies inside the window of size vp.
AnchorInBounds(p, vp) ==
    /\ 0 <= p.x /\ p.x <= Max(0, vp.width - DEFAULT_MAIN_BUTTON_SIZE)
    /\ 0 <= p.y /\ p.y <= Max(0, vp.height - DEFAULT_MAIN_BUTTON_SIZE)

\* C28: the anchor's position always lies within
\* [0, max(0, viewport - anchor size)] on each axis; a resize leaves a
\* position that is inside the new window where it is and moves any other
\* coordinate to the new window's far bound.
C28_AnchorStaysInBounds ==
    /\ [](lastGesture # "unmounted" => AnchorInBounds(centerPosition, viewportSize))
    /\ [][viewportSize' # viewportSize =>
             /\ AnchorInBounds(centerPosition, viewportSize') =>
                   centerPosition' = centerPosition
             /\ centerPosition'.x = Min(centerPosition.x,
                   Max(0, viewportSize'.width - DEFAULT_MAIN_BUTTON_SIZE))
             /\ centerPosition'.y = Min(centerPosition.y,
                   Max(0, viewportSize'.height - DEFAULT_MAIN_BUTTON_SIZE))]_vars

\* A drag far to the right in a window narrower than the anchor.
C28_Witness ==
    /\ lastGesture = "dragMove"
    /\ viewportSize.width < DEFAULT_MAIN_BUTTON_SIZE
    /\ pointer.x - dragStartOffset.x > 0
    /\ centerPosition.x = 0

\* C29: in the controller that uses the motion-value drag hook, no step of
\* handling a viewport resize changes the anchor position.
C29_ResizeKeepsAnchor ==
    [][(variant = "ref" /\ lastEvent' = "resize") => position' = position]_vars

\* The offset fields of every item, and the fields a recompute copies.
ItemOffsets(list) ==
    [k \in 1 .. Len(list) |->
        << list[k].x, list[k].y, list[k].targetX, list[k].targetY,
           list[k].currentRadius, list[k].currentAngle >>]
ItemIdentity(list) ==
    [k \in 1 .. Len(list) |->
        << list[k].id, list[k].baseAngle, list[k].scale, list[k].size >>]
HasReplace(queue) == \E k \in 1 .. Len(queue) : queue[k].kind = "replace"

\* C30: a step that leaves the menu closed neither runs the solver nor
\* changes x, y, targetX, targetY, currentRadius or currentAngle of any item;
\* the list a recompute returns has the ids, order, base angles, scales and
\* sizes of the list it read, and committing it changes none of them.
C30_ClosedMenuFreezesOffsets ==
    [][ /\ ~isOpen' =>
            /\ recomputes' # recomputes + 1
            /\ ~HasReplace(updateQueue')
            /\ ItemOffsets(orbitalItems') = ItemOffsets(orbitalItems)
        /\ recomputes' = recomputes + 1 =>
            /\ HasReplace(updateQueue')
            /\ solveInput' = orbitalItems
            /\ ItemIdentity(updateQueue'[Len(updateQueue')].list) = ItemIdentity(solveInput')
        /\ (HasReplace(updateQueue) /\ updateQueue' = << >>) =>
            ItemIdentity(orbitalItems') = ItemIdentity(orbitalItems)
      ]_vars

\* A menu that was opened and closed again has handled a hover, drag, resize
\* or same-size item change to the end.
C30_Witness ==
    /\ ~isOpen
    /\ Quiescent
    /\ solveInput # << >>
    /\ lastEvent \in {"hover", "dragMove", "resize", "itemsSame"}
    /\ events = MaxEvents

=============================================================================
